---- MODULE Spec2Model ----
(***************************************************************************)
(* A model of src-tauri/src/commands.rs: whisper engine discovery, model   *)
(* selection, model download and the transcription orchestrator.           *)
(*                                                                         *)
(* Conventions.                                                            *)
(*  - A path is a record [dir, name]: dir names the directory, name is the *)
(*    file name split at its dots ("ggml-base.en.bin" is                   *)
(*    <<"ggml-base", "en", "bin">>), so that PathBuf::with_extension is    *)
(*    computed, not assumed.  NoPath is Option::None.                      *)
(*  - Byte counts are in units of 10^6 bytes (size_bytes 75_000_000 is 75). *)
(*  - The filesystem of the download follows POSIX: a name refers to an    *)
(*    inode, an open file keeps its inode and its own offset, File::create *)
(*    truncates the inode a name already refers to, rename moves the name. *)
(***************************************************************************)
EXTENDS Integers, Sequences, FiniteSets, TLC

\* ------------------------------------------------------------------ bounds
MaxBody == 2        \* chunks a response body holds at most
ThrottleBody == 4   \* the same where the progress events of one call are looked at
MaxCalls == 2       \* calls one caller makes in the sequential specification
RaceCalls == 1      \* calls each caller makes in the concurrent specification
ChunkMB == 40       \* size of one chunk of the byte stream, in 10^6 bytes

\* ------------------------------------------------------- program constants
ProgressIntervalMs == 100

\* ------------------------------------------------------------------- paths
NoPath == [dir |-> "", name |-> <<>>]

Join(dir, name) == [dir |-> dir, name |-> name]

\* Path::file_stem: the file name without its last dot and what follows it;
\* the whole name when it has no dot, or begins with a dot and has no other
\* (".hidden" is <<"", "hidden">>)
FileStem(name) ==
    IF Len(name) = 1 \/ (Len(name) = 2 /\ name[1] = "") THEN name
    ELSE SubSeq(name, 1, Len(name) - 1)

\* Path::extension: what follows the last dot, <<>> for None
Extension(name) == IF FileStem(name) = name THEN <<>> ELSE <<name[Len(name)]>>

\* the component "..", which is no file name
DotDot == <<"", "", "">>

\* PathBuf::with_extension: the previous extension is cut, its dot staying,
\* and set_extension puts ext (itself possibly holding dots) after the file
\* stem of what is left; it does nothing when that is ".." ("..hidden" is
\* <<"", "", "hidden">>)
WithExtensionAppend(p, ext) == [p EXCEPT !.name = p.name \o ext]
WithExtension(p, ext) ==
    LET cut == IF Extension(p.name) = <<>> THEN p.name
               ELSE SubSeq(p.name, 1, Len(p.name) - 1) \o <<"">>
    IN  IF cut = DotDot THEN [p EXCEPT !.name = DotDot]
        ELSE [p EXCEPT !.name = FileStem(cut) \o ext]

Min(a, b) == IF a <= b THEN a ELSE b
Range(f) == {f[x] : x \in DOMAIN f}
Last(s) == s[Len(s)]

\* ---------------------------------------------------------------- registry
\* get_available_models: models_info (id, size_bytes, filename, is_multilingual)
ModelsInfo ==
    << [id |-> "tiny",         size_bytes |-> 75,   filename |-> <<"ggml-tiny", "en", "bin">>,   is_multilingual |-> FALSE],
       [id |-> "tiny-multi",   size_bytes |-> 75,   filename |-> <<"ggml-tiny", "bin">>,         is_multilingual |-> TRUE],
       [id |-> "base",         size_bytes |-> 142,  filename |-> <<"ggml-base", "en", "bin">>,   is_multilingual |-> FALSE],
       [id |-> "base-multi",   size_bytes |-> 142,  filename |-> <<"ggml-base", "bin">>,         is_multilingual |-> TRUE],
       [id |-> "small",        size_bytes |-> 466,  filename |-> <<"ggml-small", "en", "bin">>,  is_multilingual |-> FALSE],
       [id |-> "small-multi",  size_bytes |-> 466,  filename |-> <<"ggml-small", "bin">>,        is_multilingual |-> TRUE],
       [id |-> "medium",       size_bytes |-> 1500, filename |-> <<"ggml-medium", "en", "bin">>, is_multilingual |-> FALSE],
       [id |-> "medium-multi", size_bytes |-> 1500, filename |-> <<"ggml-medium", "bin">>,       is_multilingual |-> TRUE],
       [id |-> "large",        size_bytes |-> 2900, filename |-> <<"ggml-large", "bin">>,        is_multilingual |-> TRUE] >>

ModelIds == {ModelsInfo[i].id : i \in DOMAIN ModelsInfo}

\* base_url, split at '/'
BaseUrl == <<"https:", "", "huggingface.co", "ggerganov", "whisper.cpp", "resolve", "main">>

\* format!("{}/{}", base_url, filename)
DownloadUrl(filename) == Append(BaseUrl, filename)

\* std::env::var("HOME").or_else(|_| std::env::var("USERPROFILE")): "home" when
\* one of them is set, "" when neither is (what unwrap_or_default gives)
VARIABLE home

\* cfg(target_os): the platform the program was built for
VARIABLE target_os

\* PathBuf::from(&home).join(".voiceintelligence").join("whisper"): with an
\* empty home a path relative to the working directory
WhisperDir == IF home = "" THEN ".voiceintelligence/whisper" ELSE "whisper_dir"

Callers == {1, 2}
Inodes == 1 .. (Cardinality(Callers) * MaxCalls)
DlPaths ==
    UNION {{Join(WhisperDir, ModelsInfo[i].filename),
            WithExtension(Join(WhisperDir, ModelsInfo[i].filename), <<"bin", "tmp">>)}
           : i \in DOMAIN ModelsInfo}

VARIABLES
    dirExists,   \* whisper_dir exists
    fsName,      \* path of whisper_dir -> inode (0: no such file)
    fsData,      \* inode -> its content, a sequence of chunk tags (0: a hole)
    reqIds,      \* the model ids callers ask for
    bodyLimit,   \* the chunks a response body holds at most
    budget,      \* caller -> calls it may still start
    pc,          \* caller -> its position in download_whisper_model
    req,         \* caller -> the model_id of its call
    fd,          \* caller -> inode of its open `file` (0: none)
    fpos,        \* caller -> offset of `file`, in chunks
    clen,        \* caller -> the response's Content-Length (-1: not reported)
    total_size,  \* caller -> total_size
    downloaded,  \* caller -> downloaded
    elapsed,     \* caller -> last_progress_update.elapsed(), in ms, saturated
    quiet,       \* caller -> ms since the stream started or the last "downloading" event, saturated
    events,      \* caller -> the download-progress events its call emitted
    io,          \* caller -> what its call did: http requests, file operations, injected faults
    complete,    \* download url -> the bodies whose stream ended without error
    ret,         \* caller -> what its call returned (done: it has returned)
    prev         \* caller -> its call before that, when it was answered "already installed"

VARIABLES
    files,       \* the other files that exist: path -> content (a sequence of characters)
    probe,       \* command -> what running it with --help gives
    call,        \* the discovery or selection function applied, its arguments and its result
    tpc,         \* position of transcribe_audio
    treq,        \* its request: audio_path, language, model, whisper_path
    whisper_cmd, \* its whisper_cmd
    model_path,  \* its model_path
    output,      \* what the whisper subprocess gave: spawned, success, code, stdout, stderr
    text,        \* its text
    tres,        \* what it returned
    atStart,     \* the files when it was called
    afterRun,    \* the files when the subprocess had ended
    spawns       \* the transcription subprocesses it spawned

envVars == <<files, probe, home, target_os>>
trVars == <<tpc, treq, whisper_cmd, model_path, output, text, tres, atStart, afterRun, spawns>>

dlVars == <<dirExists, fsName, fsData, reqIds, bodyLimit, budget, pc, req, fd, fpos, clen,
            total_size, downloaded, elapsed, quiet, events, io, complete, ret, prev>>

vars == <<dlVars, envVars, call, trVars>>

\* path.exists()
Exists(p) == p \in DOMAIN files \/ (p \in DOMAIN fsName /\ fsName[p] # 0)

\* (mutant) installed_path built from the model id, not from the file name
WhisperModelOfById(info) ==
    LET file_path == Join(WhisperDir, info.filename)
        installed == Exists(file_path)
    IN  [id |-> info.id,
         size_bytes |-> info.size_bytes,
         download_url |-> DownloadUrl(info.filename),
         installed |-> installed,
         installed_path |-> IF installed THEN Join(WhisperDir, <<info.id, "bin">>) ELSE NoPath,
         is_multilingual |-> info.is_multilingual]

\* (mutant) the path is reported whether the file exists or not
WhisperModelOfPathAlways(info) ==
    LET file_path == Join(WhisperDir, info.filename)
    IN  [id |-> info.id,
         size_bytes |-> info.size_bytes,
         download_url |-> DownloadUrl(info.filename),
         installed |-> Exists(file_path),
         installed_path |-> file_path,
         is_multilingual |-> info.is_multilingual]

\* get_available_models: one WhisperModel per registry entry, installed and
\* installed_path recomputed from the filesystem.
WhisperModelOf(info) ==
    LET file_path == Join(WhisperDir, info.filename)
        installed == Exists(file_path)
    IN  [id |-> info.id,
         size_bytes |-> info.size_bytes,
         download_url |-> DownloadUrl(info.filename),
         installed |-> installed,
         installed_path |-> IF installed THEN file_path ELSE NoPath,
         is_multilingual |-> info.is_multilingual]

get_available_models == [i \in DOMAIN ModelsInfo |-> WhisperModelOf(ModelsInfo[i])]

\* models.iter().find(|m| m.id == model_id)
FindModel(model_id) ==
    LET models == get_available_models
    IN  models[CHOOSE i \in DOMAIN models :
                 /\ models[i].id = model_id
                 /\ \A j \in DOMAIN models : models[j].id = model_id => i <= j]

\* model.download_url.split('/').last(), joined to whisper_dir
ModelPath(model) == Join(WhisperDir, Last(model.download_url))

\* (mutant) the download is written under the final name
TempPathIsFinal(model) == ModelPath(model)

\* model_path.with_extension("bin.tmp")
TempPath(model) == WithExtension(ModelPath(model), <<"bin", "tmp">>)

\* A percentage is kept as the exact fraction num/den (den = 0: NaN or infinite).
\* (downloaded as f32 / total_size as f32) * 100.0
Percentage(d, t) == [num |-> d * 100, den |-> t]
\* the literals 0.0 and 100.0
Literal(n) == [num |-> n, den |-> 1]
IsPercent(p, n) == p.den # 0 /\ p.num = n * p.den

DownloadProgress(model_id, d, t, percentage, status) ==
    [model_id |-> model_id, downloaded |-> d, total |-> t,
     percentage |-> percentage, status |-> status]

OkResult(message, path) ==
    [done |-> TRUE, ok |-> TRUE, message |-> message, model_path |-> path]
ErrResult(message) ==
    [done |-> TRUE, ok |-> FALSE, message |-> message, model_path |-> NoPath]
NoResult == [done |-> FALSE, ok |-> FALSE, message |-> "", model_path |-> NoPath]

\* -------------------------------------------------------------- filesystem
Referenced(names, fds, i) == i \in Range(names) \/ i \in Range(fds)

\* an inode no name and no open file refers to is gone
Collect(names, fds, data) ==
    [i \in Inodes |-> IF Referenced(names, fds, i) THEN data[i] ELSE <<>>]

FreeInode == CHOOSE i \in Inodes :
                /\ ~Referenced(fsName, fd, i)
                /\ \A j \in Inodes : ~Referenced(fsName, fd, j) => i <= j

\* a chunk of zeros, no chunk of any body
Hole == <<0, 0, 0>>

\* write(2) at offset off: a write past the end leaves a hole of zeros
WriteAt(content, off, tag) ==
    [k \in 1 .. (IF off + 1 > Len(content) THEN off + 1 ELSE Len(content)) |->
        IF k = off + 1 THEN tag
        ELSE IF k <= Len(content) THEN content[k]
        ELSE Hole]

\* the body the stream of a call delivers: n chunks, each tagged by the caller,
\* the call (the budget the caller had left) and its index
Body(c, callno, n) == [k \in 1 .. n |-> <<c, callno, k>>]

\* ------------------------------------------------ download_whisper_model
\* download_whisper_model touches nothing but whisper_dir and its own locals
DlFrame == UNCHANGED <<envVars, call, trVars>>

Idle(c) == pc[c] = "idle"

\* the call returns res
Return(c, res) ==
    /\ pc' = [pc EXCEPT ![c] = "idle"]
    /\ ret' = [ret EXCEPT ![c] = res]

\* the locals of a call that has returned are gone
DropLocals(c) ==
    /\ fpos' = [fpos EXCEPT ![c] = 0]
    /\ clen' = [clen EXCEPT ![c] = -1]
    /\ total_size' = [total_size EXCEPT ![c] = 0]
    /\ downloaded' = [downloaded EXCEPT ![c] = 0]
    /\ elapsed' = [elapsed EXCEPT ![c] = 0]
    /\ quiet' = [quiet EXCEPT ![c] = 0]

\* a call starts: what the call before it returned and did is kept, when that
\* call found the model installed or failed mid-stream
NoSummary ==
    [model_id |-> "", done |-> FALSE, ok |-> FALSE, message |-> "",
     model_path |-> NoPath, http |-> 0, fsops |-> 0, nevents |-> 0]
MidStreamErrors == {"Download error", "Failed to write to file"}
Summary(c) ==
    IF ret[c].message \in {"Model already installed"} \cup MidStreamErrors
    THEN [model_id |-> req[c], done |-> ret[c].done, ok |-> ret[c].ok,
          message |-> ret[c].message, model_path |-> ret[c].model_path,
          http |-> io[c].http, fsops |-> io[c].fsops, nevents |-> Len(events[c])]
    ELSE NoSummary
Begin(c, id) ==
    /\ Idle(c) /\ budget[c] > 0 /\ id \in reqIds
    /\ budget' = [budget EXCEPT ![c] = @ - 1]
    /\ req' = [req EXCEPT ![c] = id]
    /\ prev' = [prev EXCEPT ![c] = Summary(c)]

CloseFile(c) ==
    /\ fd' = [fd EXCEPT ![c] = 0]
    /\ fsData' = Collect(fsName, fd', fsData)

Fault(c) == [io[c] EXCEPT !.faults = @ + 1]

\* lines 813-818: model_id is not in the registry
CallUnknown(c, id) ==
    /\ Begin(c, id)
    /\ id \notin ModelIds
    /\ events' = [events EXCEPT ![c] = <<>>]
    /\ io' = [io EXCEPT ![c] = [http |-> 0, fsops |-> 0, faults |-> 0]]
    /\ Return(c, ErrResult("Model not found"))
    /\ DlFrame
    /\ UNCHANGED <<dirExists, fsName, fsData, reqIds, bodyLimit, fd, fpos, clen, total_size,
                   downloaded, elapsed, quiet, complete>>

\* lines 820-827: already installed
CallInstalled(c, id) ==
    /\ Begin(c, id)
    /\ id \in ModelIds
    /\ FindModel(id).installed
    /\ events' = [events EXCEPT ![c] = <<>>]
    /\ io' = [io EXCEPT ![c] = [http |-> 0, fsops |-> 0, faults |-> 0]]
    /\ Return(c, OkResult("Model already installed", FindModel(id).installed_path))
    /\ DlFrame
    /\ UNCHANGED <<dirExists, fsName, fsData, reqIds, bodyLimit, fd, fpos, clen, total_size,
                   downloaded, elapsed, quiet, complete>>

\* lines 830-832: neither HOME nor USERPROFILE is set
CallNoHome(c, id) ==
    /\ Begin(c, id)
    /\ id \in ModelIds
    /\ ~FindModel(id).installed
    /\ home = ""
    /\ events' = [events EXCEPT ![c] = <<>>]
    /\ io' = [io EXCEPT ![c] = [http |-> 0, fsops |-> 0, faults |-> 0]]
    /\ Return(c, ErrResult("Could not find home directory"))
    /\ DlFrame
    /\ UNCHANGED <<dirExists, fsName, fsData, reqIds, bodyLimit, fd, fpos, clen, total_size,
                   downloaded, elapsed, quiet, complete>>

\* lines 835-839: create_dir_all fails
CallMkdirFails(c, id) ==
    /\ Begin(c, id)
    /\ id \in ModelIds
    /\ ~FindModel(id).installed
    /\ home # ""
    /\ ~dirExists
    /\ events' = [events EXCEPT ![c] = <<>>]
    /\ io' = [io EXCEPT ![c] = [http |-> 0, fsops |-> 0, faults |-> 1]]
    /\ Return(c, ErrResult("Failed to create directory"))
    /\ DlFrame
    /\ UNCHANGED <<dirExists, fsName, fsData, reqIds, bodyLimit, fd, fpos, clen, total_size,
                   downloaded, elapsed, quiet, complete>>

\* lines 829-857: the directory is there or is created, the "starting" event
CallStart(c, id) ==
    /\ Begin(c, id)
    /\ id \in ModelIds
    /\ ~FindModel(id).installed
    /\ home # ""
    /\ dirExists' = TRUE
    /\ events' = [events EXCEPT ![c] =
            <<DownloadProgress(id, 0, FindModel(id).size_bytes, Literal(0), "starting")>>]
    /\ io' = [io EXCEPT ![c] = [http |-> 0, fsops |-> IF dirExists THEN 0 ELSE 1, faults |-> 0]]
    /\ pc' = [pc EXCEPT ![c] = "send"]
    /\ ret' = [ret EXCEPT ![c] = NoResult]
    /\ DlFrame
    /\ UNCHANGED <<fsName, fsData, reqIds, bodyLimit, fd, fpos, clen, total_size,
                   downloaded, elapsed, quiet, complete>>

\* lines 860-865: the request fails
SendFails(c) ==
    /\ pc[c] = "send"
    /\ io' = [io EXCEPT ![c] = [@ EXCEPT !.http = @ + 1, !.faults = @ + 1]]
    /\ Return(c, ErrResult("Failed to start download"))
    /\ DropLocals(c)
    /\ DlFrame
    /\ UNCHANGED <<dirExists, fsName, fsData, reqIds, bodyLimit, budget, req, fd, events, complete, prev>>

\* lines 867-869: the response status is not a success
SendBadStatus(c) ==
    /\ pc[c] = "send"
    /\ io' = [io EXCEPT ![c] = [@ EXCEPT !.http = @ + 1, !.faults = @ + 1]]
    /\ Return(c, ErrResult("Download failed with status"))
    /\ DropLocals(c)
    /\ DlFrame
    /\ UNCHANGED <<dirExists, fsName, fsData, reqIds, bodyLimit, budget, req, fd, events, complete, prev>>

\* lines 871-874: response.content_length().unwrap_or(model.size_bytes)
TotalSize(cl, model) == IF cl = -1 THEN model.size_bytes ELSE cl

\* lines 860-874: a success response, with or without Content-Length
SendOk(c) ==
    /\ pc[c] = "send"
    /\ \E cl \in {-1} \cup {k * ChunkMB : k \in 0 .. MaxBody} :
          /\ clen' = [clen EXCEPT ![c] = cl]
          /\ total_size' = [total_size EXCEPT ![c] = TotalSize(cl, FindModel(req[c]))]
    /\ io' = [io EXCEPT ![c].http = @ + 1]
    /\ pc' = [pc EXCEPT ![c] = "create"]
    /\ DlFrame
    /\ UNCHANGED <<dirExists, fsName, fsData, reqIds, bodyLimit, budget, req, fd, fpos,
                   downloaded, elapsed, quiet, events, complete, ret, prev>>

\* lines 876-879: File::create fails
CreateFails(c) ==
    /\ pc[c] = "create"
    /\ io' = [io EXCEPT ![c] = Fault(c)]
    /\ Return(c, ErrResult("Failed to create file"))
    /\ DropLocals(c)
    /\ DlFrame
    /\ UNCHANGED <<dirExists, fsName, fsData, reqIds, bodyLimit, budget, req, fd, events, complete, prev>>

\* (mutant) the temporary file is opened without truncating it
CreateKeep(names, data, path) ==
    LET i == IF names[path] # 0 THEN names[path] ELSE FreeInode
    IN  [inode |-> i,
         names |-> [names EXCEPT ![path] = i],
         data |-> data]

\* File::create(&temp_path): the name's inode truncated, or a new empty inode
CreateTruncate(names, data, path) ==
    LET i == IF names[path] # 0 THEN names[path] ELSE FreeInode
    IN  [inode |-> i,
         names |-> [names EXCEPT ![path] = i],
         data |-> [data EXCEPT ![i] = <<>>]]

\* lines 876-884: the temporary file is created, the stream starts
Create(c) ==
    /\ pc[c] = "create"
    /\ LET r == CreateTruncate(fsName, fsData, TempPath(FindModel(req[c])))
       IN  /\ fsName' = r.names
           /\ fsData' = r.data
           /\ fd' = [fd EXCEPT ![c] = r.inode]
    /\ fpos' = [fpos EXCEPT ![c] = 0]
    /\ downloaded' = [downloaded EXCEPT ![c] = 0]
    /\ elapsed' = [elapsed EXCEPT ![c] = 0]
    /\ quiet' = [quiet EXCEPT ![c] = 0]
    /\ io' = [io EXCEPT ![c].fsops = @ + 1]
    /\ pc' = [pc EXCEPT ![c] = "next"]
    /\ DlFrame
    /\ UNCHANGED <<dirExists, reqIds, bodyLimit, budget, req, clen, total_size, events,
                   complete, ret, prev>>

\* time that passes while the call awaits stream.next()
Delays == {0, ProgressIntervalMs \div 2, ProgressIntervalMs}
Wait(c, d) ==
    /\ elapsed' = [elapsed EXCEPT ![c] = Min(@ + d, ProgressIntervalMs)]
    /\ quiet' = [quiet EXCEPT ![c] = Min(@ + d, ProgressIntervalMs)]

\* the stream has more to deliver: the code reads chunks until the stream ends
\* and never compares what it received with Content-Length
MoreToCome(c) == downloaded[c] < bodyLimit * ChunkMB

\* line 886: stream.next() yields a chunk
NextChunk(c) ==
    /\ pc[c] = "next"
    /\ MoreToCome(c)
    /\ \E d \in Delays : Wait(c, d)
    /\ pc' = [pc EXCEPT ![c] = "write"]
    /\ DlFrame
    /\ UNCHANGED <<dirExists, fsName, fsData, reqIds, bodyLimit, budget, req, fd, fpos, clen,
                   total_size, downloaded, events, io, complete, ret, prev>>

\* lines 887-888: stream.next() yields an error
NextFails(c) ==
    /\ pc[c] = "next"
    /\ io' = [io EXCEPT ![c] = Fault(c)]
    /\ CloseFile(c)
    /\ Return(c, ErrResult("Download error"))
    /\ DropLocals(c)
    /\ DlFrame
    /\ UNCHANGED <<dirExists, fsName, reqIds, bodyLimit, budget, req, events, complete, prev>>

\* line 886: stream.next() yields None, the body is complete
NextEnd(c) ==
    /\ pc[c] = "next"
    /\ complete' = [complete EXCEPT ![FindModel(req[c]).download_url] =
                        @ \cup {Body(c, budget[c], downloaded[c] \div ChunkMB)}]
    /\ pc' = [pc EXCEPT ![c] = "flush"]
    /\ DlFrame
    /\ UNCHANGED <<dirExists, fsName, fsData, reqIds, bodyLimit, budget, req, fd, fpos, clen,
                   total_size, downloaded, elapsed, quiet, events, io, ret, prev>>

\* a proper prefix of the chunk tag: the bytes write_all had written when it
\* failed
Part(tag) == [tag EXCEPT ![3] = -@]

\* lines 890-891: write_all fails, having written nothing of the chunk or a
\* part of it
WriteFails(c) ==
    /\ pc[c] = "write"
    /\ io' = [io EXCEPT ![c] = Fault(c)]
    /\ fd' = [fd EXCEPT ![c] = 0]
    /\ \E part \in BOOLEAN :
          fsData' = Collect(fsName, fd',
                            IF part
                            THEN [fsData EXCEPT ![fd[c]] =
                                     WriteAt(@, fpos[c], Part(<<c, budget[c], fpos[c] + 1>>))]
                            ELSE fsData)
    /\ Return(c, ErrResult("Failed to write to file"))
    /\ DropLocals(c)
    /\ DlFrame
    /\ UNCHANGED <<dirExists, fsName, reqIds, bodyLimit, budget, req, events, complete, prev>>

\* (mutant) every chunk is reported
EmitProgressAlways(c, d, evs) ==
    Append(evs, DownloadProgress(req[c], d, total_size[c],
                                 Percentage(d, total_size[c]), "downloading"))

\* lines 895-906: the progress event of the loop, gated by the 100ms
EmitProgress(c, d, evs) ==
    IF elapsed[c] >= ProgressIntervalMs
    THEN Append(evs, DownloadProgress(req[c], d, total_size[c],
                                      Percentage(d, total_size[c]), "downloading"))
    ELSE evs

\* lines 890-906: the chunk is written, counted and maybe reported
WriteChunk(c) ==
    /\ pc[c] = "write"
    /\ fsData' = [fsData EXCEPT ![fd[c]] = WriteAt(@, fpos[c], <<c, budget[c], fpos[c] + 1>>)]
    /\ fpos' = [fpos EXCEPT ![c] = @ + 1]
    /\ downloaded' = [downloaded EXCEPT ![c] = @ + ChunkMB]
    /\ events' = [events EXCEPT ![c] = EmitProgress(c, downloaded'[c], @)]
    /\ elapsed' = [elapsed EXCEPT ![c] = IF @ >= ProgressIntervalMs THEN 0 ELSE @]
    /\ quiet' = [quiet EXCEPT ![c] = IF Len(events'[c]) > Len(events[c]) THEN 0 ELSE @]
    /\ io' = [io EXCEPT ![c].fsops = @ + 1]
    /\ pc' = [pc EXCEPT ![c] = "next"]
    /\ DlFrame
    /\ UNCHANGED <<dirExists, fsName, reqIds, bodyLimit, budget, req, fd, clen, total_size,
                   complete, ret, prev>>

\* lines 909-911: flush fails
FlushFails(c) ==
    /\ pc[c] = "flush"
    /\ io' = [io EXCEPT ![c] = Fault(c)]
    /\ CloseFile(c)
    /\ Return(c, ErrResult("Failed to flush file"))
    /\ DropLocals(c)
    /\ DlFrame
    /\ UNCHANGED <<dirExists, fsName, reqIds, bodyLimit, budget, req, events, complete, prev>>

\* lines 909-912: flush, drop(file)
Flush(c) ==
    /\ pc[c] = "flush"
    /\ CloseFile(c)
    /\ pc' = [pc EXCEPT ![c] = "rename"]
    /\ DlFrame
    /\ UNCHANGED <<dirExists, fsName, reqIds, bodyLimit, budget, req, fpos, clen, total_size,
                   downloaded, elapsed, quiet, events, io, complete, ret, prev>>

\* (mutant) the rename leaves the names as they are
RenameNothing(names, from, to) == names

\* rename(2): the target name takes the source's inode, the source name goes
RenameFile(names, from, to) == [names EXCEPT ![to] = names[from], ![from] = 0]

\* lines 914-916: the rename fails: the temporary name is gone (ENOENT)
RenameNoSource(c) ==
    /\ pc[c] = "rename"
    /\ ~Exists(TempPath(FindModel(req[c])))
    /\ Return(c, ErrResult("Failed to move downloaded file"))
    /\ DropLocals(c)
    /\ DlFrame
    /\ UNCHANGED <<dirExists, fsName, fsData, reqIds, bodyLimit, budget, req, fd, events, io, complete, prev>>

\* lines 914-916: the rename fails for another reason
RenameFails(c) ==
    /\ pc[c] = "rename"
    /\ Exists(TempPath(FindModel(req[c])))
    /\ io' = [io EXCEPT ![c] = Fault(c)]
    /\ Return(c, ErrResult("Failed to move downloaded file"))
    /\ DropLocals(c)
    /\ DlFrame
    /\ UNCHANGED <<dirExists, fsName, fsData, reqIds, bodyLimit, budget, req, fd, events, complete, prev>>

\* lines 914-916: the temporary file takes the final name
Rename(c) ==
    /\ pc[c] = "rename"
    /\ Exists(TempPath(FindModel(req[c])))
    /\ fsName' = RenameFile(fsName, TempPath(FindModel(req[c])), ModelPath(FindModel(req[c])))
    /\ fsData' = Collect(fsName', fd, fsData)
    /\ io' = [io EXCEPT ![c].fsops = @ + 1]
    /\ pc' = [pc EXCEPT ![c] = "completed"]
    /\ DlFrame
    /\ UNCHANGED <<dirExists, reqIds, bodyLimit, budget, req, fd, fpos, clen, total_size,
                   downloaded, elapsed, quiet, events, complete, ret, prev>>

\* (mutant) the last event is one more "downloading" event
CompletedAsDownloading(c) ==
    DownloadProgress(req[c], total_size[c], total_size[c], Literal(100), "downloading")

\* lines 918-925: the "completed" event
CompletedEvent(c) ==
    DownloadProgress(req[c], total_size[c], total_size[c], Literal(100), "completed")

\* lines 918-933: the "completed" event and the result
Completed(c) ==
    /\ pc[c] = "completed"
    /\ events' = [events EXCEPT ![c] = Append(@, CompletedEvent(c))]
    /\ Return(c, OkResult("Model downloaded successfully", ModelPath(FindModel(req[c]))))
    /\ DropLocals(c)
    /\ DlFrame
    /\ UNCHANGED <<dirExists, fsName, fsData, reqIds, bodyLimit, budget, req, fd, io, complete, prev>>

\* the registry entry of a model id
InfoOf(id) == ModelsInfo[CHOOSE i \in DOMAIN ModelsInfo : ModelsInfo[i].id = id]

\* the steps of a call for an id drawn from the registry, alone on the file system
DownloadStep(c) ==
    \/ \E id \in reqIds : CallInstalled(c, id)
    \/ \E id \in reqIds : CallMkdirFails(c, id)
    \/ \E id \in reqIds : CallStart(c, id)
    \/ SendFails(c)
    \/ SendBadStatus(c)
    \/ SendOk(c)
    \/ CreateFails(c)
    \/ Create(c)
    \/ NextChunk(c)
    \/ NextFails(c)
    \/ NextEnd(c)
    \/ WriteFails(c)
    \/ WriteChunk(c)
    \/ FlushFails(c)
    \/ Flush(c)
    \/ RenameFails(c)
    \/ Rename(c)
    \/ Completed(c)

\* one caller: ids outside the registry are requested too, and the home
\* directory may be unknown
SequentialStep(c) ==
    \/ \E id \in reqIds : CallUnknown(c, id)
    \/ \E id \in reqIds : CallNoHome(c, id)
    \/ DownloadStep(c)

\* several callers: the temporary file may be gone at the rename
ConcurrentStep(c) ==
    \/ DownloadStep(c)
    \/ RenameNoSource(c)

\* ------------------------------------------------------- engine discovery
\* A command is a path; a bare command name is a
\* path without directory (dir = ""), which Command::new resolves via PATH and
\* PathBuf::exists resolves in the working directory.
Bare(n) == [dir |-> "", name |-> <<n>>]

\* whisper_dir.join("whisper.exe"), "main.exe", "whisper", "main", in the order
\* both check_whisper_available and find_whisper_binary try them
InstallBinaries ==
    << Join(WhisperDir, <<"whisper", "exe">>), Join(WhisperDir, <<"main", "exe">>),
       Join(WhisperDir, <<"whisper">>), Join(WhisperDir, <<"main">>) >>

\* a path the user selected or saved
UserPath == Join("user", <<"whisper-cli">>)

\* index of the first element of seq that is in S, 0 when there is none
FirstIn(seq, S) ==
    LET I == {i \in DOMAIN seq : seq[i] \in S}
    IN  IF I = {} THEN 0 ELSE CHOOSE i \in I : \A j \in I : i <= j

\* Command::new(cmd).arg("--help").output(): ran: the child was spawned;
\* exits: it ends by itself, so that output() returns; stdout and stderr are
\* the marker words the stream contains; utf8: stdout is valid UTF-8
NoRun ==
    [ran |-> FALSE, success |-> FALSE, stdout |-> {}, stderr |-> {}, utf8 |-> TRUE,
     exits |-> TRUE]
Ran(success, out, err, utf8) ==
    [ran |-> TRUE, success |-> success, stdout |-> out, stderr |-> err, utf8 |-> utf8,
     exits |-> TRUE]
\* the child process started and never exits: output() waits for it
Hangs == [Ran(FALSE, {}, {}, TRUE) EXCEPT !.exits = FALSE]
\* what spawning cmd now gives: a path that does not exist cannot be spawned
Help(cmd) == IF cmd.dir # "" /\ ~Exists(cmd) THEN NoRun ELSE probe[cmd]

WhisperCheckResult(available, path) == [available |-> available, path |-> path]

\* lines 104-141 and 519-542: the installation directory, by existence alone,
\* looked at only when the home directory is known
InstalledBinary ==
    LET i == FirstIn(InstallBinaries, {b \in Range(InstallBinaries) : Exists(b)})
    IN  IF home = "" \/ i = 0 THEN NoPath ELSE InstallBinaries[i]

\* A discovery call in progress.  Between two steps the call waits inside
\* Command::output() for the child of the candidate `at`, whose outcome
\* `child` was fixed when it was spawned; what the call reads after the wait
\* it reads in the state of that moment.
NewCall(fn, arg) ==
    [fn |-> fn, arg |-> arg, returned |-> FALSE, line |-> 0, at |-> NoPath, child |-> NoRun,
     result |-> NoPath, changes |-> 0]
\* the call spawns cand at the output() of the given source line and waits there
Waits(w, line, cand) == [w EXCEPT !.line = line, !.at = cand, !.child = Help(cand)]
\* the call returns result
Returns(w, result) == [w EXCEPT !.returned = TRUE, !.result = result]

\* lines 104-146: the installation directory, then nothing
CheckInstalled(w) ==
    IF InstalledBinary # NoPath
    THEN Returns(w, WhisperCheckResult(TRUE, InstalledBinary))
    ELSE Returns(w, WhisperCheckResult(FALSE, NoPath))

\* line 93: main is spawned, or cannot be
CheckMain(w) ==
    IF Help(Bare("main")).ran THEN Waits(w, 93, Bare("main")) ELSE CheckInstalled(w)

\* line 83: whisper is spawned, or cannot be
CheckWhisper(w) ==
    IF Help(Bare("whisper")).ran THEN Waits(w, 83, Bare("whisper")) ELSE CheckMain(w)

\* lines 67-71: the saved path, when given and existing, is spawned
CheckSaved(w) ==
    IF w.arg # NoPath /\ Exists(w.arg) /\ Help(w.arg).ran
    THEN Waits(w, 71, w.arg)
    ELSE CheckWhisper(w)

\* lines 72, 84, 94-95: the child the call waited for has ended
CheckReap(w) ==
    IF w.line = 93
    THEN IF w.child.utf8 /\ "whisper" \in w.child.stdout
         THEN Returns(w, WhisperCheckResult(TRUE, w.at))
         ELSE CheckInstalled(w)
    ELSE IF w.child.success
    THEN Returns(w, WhisperCheckResult(TRUE, w.at))
    ELSE IF w.line = 83 THEN CheckMain(w) ELSE CheckWhisper(w)

\* lines 166-168: it looks like whisper
LooksLikeWhisper(o) ==
    \/ o.success
    \/ "whisper" \in o.stdout \/ "whisper" \in o.stderr
    \/ "usage" \in o.stdout \/ "usage" \in o.stderr

\* lines 152-161: the path, when it exists, is spawned
VerifyStart(w) ==
    IF Exists(w.arg) /\ Help(w.arg).ran
    THEN Waits(w, 162, w.arg)
    ELSE Returns(w, WhisperCheckResult(FALSE, NoPath))

\* lines 162-179
VerifyReap(w) ==
    IF LooksLikeWhisper(w.child)
    THEN Returns(w, WhisperCheckResult(TRUE, w.arg))
    ELSE Returns(w, WhisperCheckResult(FALSE, NoPath))

\* lines 546-550
PathCandidates == <<Bare("whisper"), Bare("whisper-cpp"), Bare("main")>>

\* lines 552-560: the candidates from the i-th on, up to one that is spawned
RECURSIVE FindCandidates(_, _)
FindCandidates(w, i) ==
    IF i > Len(PathCandidates) THEN Returns(w, NoPath)
    ELSE IF Help(PathCandidates[i]).ran THEN Waits(w, 553, PathCandidates[i])
    ELSE FindCandidates(w, i + 1)

\* lines 519-552: Some(command), or NoPath for None
FindStart(w) ==
    IF InstalledBinary # NoPath THEN Returns(w, InstalledBinary) ELSE FindCandidates(w, 1)

\* lines 553-557
FindReap(w) ==
    IF w.child.success THEN Returns(w, w.at)
    ELSE FindCandidates(w, 1 + FirstIn(PathCandidates, {w.at}))

\* the wait of a call ends
Reap(w) ==
    CASE w.fn = "check_whisper_available" -> CheckReap(w)
      [] w.fn = "verify_whisper_path" -> VerifyReap(w)
      [] OTHER -> FindReap(w)

\* the call is run to its return in the present environment, which nothing
\* changes meanwhile, every child exiting
RECURSIVE Settle(_)
Settle(w) == IF w.returned THEN w ELSE Settle(Reap(w))

\* lines 65-147
check_whisper_available(saved_path) ==
    Settle(CheckSaved(NewCall("check_whisper_available", saved_path))).result

\* lines 151-180
verify_whisper_path(path) ==
    Settle(VerifyStart(NewCall("verify_whisper_path", path))).result

\* lines 517-561
find_whisper_binary ==
    Settle(FindStart(NewCall("find_whisper_binary", NoPath))).result

\* --------------------------------------------------------- get_model_path
\* lines 944-951
MultilingualName(model) ==
    CASE model \in {"tiny", "tiny.en"} -> <<"ggml-tiny", "bin">>
      [] model \in {"base", "base.en"} -> <<"ggml-base", "bin">>
      [] model \in {"small", "small.en"} -> <<"ggml-small", "bin">>
      [] model \in {"medium", "medium.en"} -> <<"ggml-medium", "bin">>
      [] model = "large" -> <<"ggml-large", "bin">>
      [] OTHER -> <<"ggml-base", "bin">>

\* lines 954-961 and 1002-1009
EnglishName(model) ==
    CASE model \in {"tiny", "tiny.en"} -> <<"ggml-tiny", "en", "bin">>
      [] model \in {"base", "base.en"} -> <<"ggml-base", "en", "bin">>
      [] model \in {"small", "small.en"} -> <<"ggml-small", "en", "bin">>
      [] model \in {"medium", "medium.en"} -> <<"ggml-medium", "en", "bin">>
      [] model = "large" -> <<"ggml-large", "bin">>
      [] OTHER -> <<"ggml-base", "en", "bin">>

\* lines 940-962
ModelName(model, language) ==
    IF language # "en" THEN MultilingualName(model) ELSE EnglishName(model)

WhisperModelsDir ==
    IF home = "" THEN ".voiceintelligence/whisper/models" ELSE "whisper_dir/models"
CacheDir == IF home = "" THEN ".cache/whisper" ELSE "home/.cache/whisper"
WhisperCppModelsDir == IF home = "" THEN "whisper.cpp/models" ELSE "home/whisper.cpp/models"
ModelsDir == "models"
WorkingDir == ""

\* lines 972-987
SearchPaths(model_name) ==
    (IF dirExists THEN <<Join(WhisperModelsDir, model_name)>> ELSE <<>>)
    \o << Join(WhisperDir, model_name),
          Join(CacheDir, model_name),
          Join(WhisperCppModelsDir, model_name),
          Join(ModelsDir, model_name),
          Join(WorkingDir, model_name) >>

\* lines 1011-1015
FallbackPaths(fallback_model_name) ==
    << Join(WhisperDir, fallback_model_name),
       Join(CacheDir, fallback_model_name),
       Join(WhisperCppModelsDir, fallback_model_name) >>

ModelFound(path, warned) ==
    [ok |-> TRUE, path |-> path, warned |-> warned, searched |-> <<>>, url |-> <<>>]
\* lines 1029-1044: the message names model_name, the paths of search_paths
\* and, for the multilingual model, its download url
ModelNotFound(model_name, use_multilingual) ==
    [ok |-> FALSE, path |-> NoPath, warned |-> FALSE,
     searched |-> SearchPaths(model_name),
     url |-> IF use_multilingual THEN DownloadUrl(model_name) ELSE <<>>]

\* lines 937-1045
get_model_path(model, language) ==
    LET use_multilingual == language # "en"
        model_name == ModelName(model, language)
        search_paths == SearchPaths(model_name)
        found == FirstIn(search_paths, {q \in Range(search_paths) : Exists(q)})
        fallback_paths == FallbackPaths(EnglishName(model))
        fallback == FirstIn(fallback_paths, {q \in Range(fallback_paths) : Exists(q)})
    IN  IF found # 0 THEN ModelFound(search_paths[found], FALSE)
        ELSE IF use_multilingual /\ fallback # 0
        THEN ModelFound(fallback_paths[fallback], TRUE)
        ELSE ModelNotFound(model_name, use_multilingual)

\* -------------------------------------------------------- transcribe_audio
\* A text is a sequence of characters; "BIN" stands for bytes that are not
\* valid UTF-8.
Whitespace == {" ", "\n"}

RECURSIVE TrimStart(_)
TrimStart(s) == IF s # <<>> /\ Head(s) \in Whitespace THEN TrimStart(Tail(s)) ELSE s
RECURSIVE TrimEnd(_)
TrimEnd(s) ==
    IF s # <<>> /\ s[Len(s)] \in Whitespace THEN TrimEnd(SubSeq(s, 1, Len(s) - 1)) ELSE s
\* str::trim
Trim(s) == TrimEnd(TrimStart(s))

\* std::fs::read_to_string on the content of a file
ReadToString(content) ==
    IF "BIN" \in Range(content) THEN [ok |-> FALSE, content |-> <<>>]
    ELSE [ok |-> TRUE, content |-> content]

\* String::from_utf8_lossy: every invalid sequence becomes U+FFFD
FromUtf8Lossy(bytes) ==
    [i \in DOMAIN bytes |-> IF bytes[i] = "BIN" THEN "U+FFFD" ELSE bytes[i]]

\* std::fs::remove_file
RemoveFile(fs, p) == [q \in DOMAIN fs \ {p} |-> fs[q]]
\* a file is written
PutFile(fs, p, content) == [q \in DOMAIN fs \cup {p} |-> IF q = p THEN content ELSE fs[q]]

\* lines 478-485 and 488-494: when text is empty and the side file exists, the
\* file is read, text becomes its trimmed content if it could be read, and the
\* file is removed
TrySideFile(st, txt_path) ==
    IF st.text = <<>> /\ txt_path \in DOMAIN st.fs
    THEN [text |-> IF ReadToString(st.fs[txt_path]).ok
                   THEN Trim(ReadToString(st.fs[txt_path]).content)
                   ELSE st.text,
          fs |-> RemoveFile(st.fs, txt_path)]
    ELSE st

\* line 478: wav_path.with_extension("wav.txt")
FirstSidePath(wav_path) == WithExtension(wav_path, <<"wav", "txt">>)
\* line 488: wav_path.with_extension("txt")
SecondSidePath(wav_path) == WithExtension(wav_path, <<"txt">>)

\* (mutant) the side file is preferred to stdout
ParseOutputSideFirst(fs, wav_path, stdout) ==
    LET side == TrySideFile(TrySideFile([text |-> <<>>, fs |-> fs], FirstSidePath(wav_path)),
                            SecondSidePath(wav_path))
    IN  IF side.text # <<>> THEN side ELSE [text |-> Trim(stdout), fs |-> side.fs]

\* lines 473-495
ParseOutputOf(fs, wav_path, stdout) ==
    LET st0 == [text |-> Trim(stdout), fs |-> fs]
    IN  IF st0.text = <<>>
        THEN TrySideFile(TrySideFile(st0, FirstSidePath(wav_path)), SecondSidePath(wav_path))
        ELSE st0

NoOutput == [spawned |-> FALSE, success |-> FALSE, code |-> 0, stdout |-> <<>>, stderr |-> <<>>]

NoTranscription ==
    [done |-> FALSE, ok |-> FALSE, message |-> "", text |-> <<>>, language |-> "",
     duration |-> 0, listed |-> {}, code |-> 0, stdout |-> <<>>, stderr |-> <<>>]
\* Ok(TranscriptionResult { text, language, duration: 0.0 })
TranscriptionResult(t, language) ==
    [NoTranscription EXCEPT !.done = TRUE, !.ok = TRUE, !.text = t, !.language = language]
\* Err(message): listed are the locations the message names; code, stderr and
\* stdout are what it quotes of the subprocess, the streams as decoded at
\* lines 456-457
TranscriptionError(message, listed, o) ==
    [NoTranscription EXCEPT !.done = TRUE, !.message = message, !.listed = listed,
                            !.code = o.code,
                            !.stdout = FromUtf8Lossy(o.stdout),
                            !.stderr = FromUtf8Lossy(o.stderr)]

TrFrame == UNCHANGED <<dlVars, probe, home, target_os>>

\* no discovery or selection call is in progress
NoCall == NewCall("none", NoPath)

\* lines 390-394: the audio file does not exist
InputCheckFails ==
    /\ tpc = "INPUT_CHECK"
    /\ ~Exists(treq.audio_path)
    /\ atStart' = files
    /\ tres' = TranscriptionError("Audio file not found", {treq.audio_path}, NoOutput)
    /\ tpc' = "ERROR"
    /\ TrFrame
    /\ UNCHANGED <<call, files, treq, whisper_cmd, model_path, output, text, afterRun, spawns>>

\* lines 390-402
InputCheck ==
    /\ tpc = "INPUT_CHECK"
    /\ Exists(treq.audio_path)
    /\ atStart' = files
    /\ tpc' = "ENGINE_RESOLVE"
    /\ TrFrame
    /\ UNCHANGED <<call, files, treq, whisper_cmd, model_path, output, text, tres, afterRun, spawns>>

\* lines 405-407: the caller gave a path and it exists
UsesProvided == call.fn = "none" /\ treq.whisper_path # NoPath /\ Exists(treq.whisper_path)

\* lines 408-418: find_whisper_binary is entered, or the child it waited for
\* has ended and it goes on
ResolveStep ==
    IF call.fn = "none" THEN FindStart(NewCall("find_whisper_binary", NoPath))
    ELSE FindReap(call)

\* engine resolution can take a step
ResolveReady ==
    /\ tpc = "ENGINE_RESOLVE"
    /\ call.fn = "none" \/ (~call.returned /\ call.child.exits)

\* lines 405-418: the value of whisper_cmd, NoPath when the ? returns the error
ResolveEngine == IF UsesProvided THEN treq.whisper_path ELSE ResolveStep.result

\* whisper_cmd.starts_with("whisper"): of the commands of the model, the bare
\* names whisper and whisper-cpp
StartsWithWhisper(cmd) == cmd.dir = "" /\ cmd.name[1] \in {"whisper", "whisper-cpp"}

\* lines 422-426
BinaryGate(cmd) == Exists(cmd) \/ StartsWithWhisper(cmd)

\* lines 413 and 417: the two messages; the first names the saved path
EngineNotFound(whisper_path) ==
    IF whisper_path # NoPath
    THEN TranscriptionError("Whisper binary not found. Saved path does not exist and no whisper found in PATH.",
                            {whisper_path}, NoOutput)
    ELSE TranscriptionError("Whisper binary not found. Please install whisper.cpp or configure the path in Settings.",
                            {}, NoOutput)

\* lines 552-553 in find_whisper_binary, called at 409 or 415: a candidate is
\* spawned and the call waits in output()
EngineWaits ==
    /\ ResolveReady
    /\ ~UsesProvided /\ ~ResolveStep.returned
    /\ call' = ResolveStep
    /\ TrFrame
    /\ UNCHANGED <<files, trVars>>

\* lines 404-418: no engine
EngineResolveFails ==
    /\ ResolveReady
    /\ ~UsesProvided /\ ResolveStep.returned
    /\ ResolveEngine = NoPath
    /\ call' = ResolveStep
    /\ tres' = EngineNotFound(treq.whisper_path)
    /\ tpc' = "ERROR"
    /\ TrFrame
    /\ UNCHANGED <<files, treq, whisper_cmd, model_path, output, text, atStart, afterRun, spawns>>

\* lines 422-426: the resolved command does not pass "Verify whisper binary exists"
EngineGateFails ==
    /\ ResolveReady
    /\ UsesProvided \/ ResolveStep.returned
    /\ ResolveEngine # NoPath
    /\ ~BinaryGate(ResolveEngine)
    /\ call' = IF UsesProvided THEN call ELSE ResolveStep
    /\ whisper_cmd' = ResolveEngine
    /\ tres' = TranscriptionError("Whisper binary not found at path", {whisper_cmd'}, NoOutput)
    /\ tpc' = "ERROR"
    /\ TrFrame
    /\ UNCHANGED <<files, treq, model_path, output, text, atStart, afterRun, spawns>>

\* lines 404-426
EngineResolve ==
    /\ ResolveReady
    /\ UsesProvided \/ ResolveStep.returned
    /\ ResolveEngine # NoPath
    /\ BinaryGate(ResolveEngine)
    /\ call' = IF UsesProvided THEN call ELSE ResolveStep
    /\ whisper_cmd' = ResolveEngine
    /\ tpc' = "MODEL_RESOLVE"
    /\ TrFrame
    /\ UNCHANGED <<files, treq, model_path, output, text, tres, atStart, afterRun, spawns>>

\* lines 428-435: get_model_path fails (or its file is gone)
ModelResolveFails ==
    /\ tpc = "MODEL_RESOLVE"
    /\ LET r == get_model_path(treq.model, treq.language)
       IN  /\ ~r.ok \/ ~Exists(r.path)
           /\ tres' = IF ~r.ok
                      THEN TranscriptionError("Whisper model not found. Searched in",
                                              Range(r.searched), NoOutput)
                      ELSE TranscriptionError("Whisper model file not found", {r.path}, NoOutput)
    /\ tpc' = "ERROR"
    /\ TrFrame
    /\ UNCHANGED <<call, files, treq, whisper_cmd, model_path, output, text, atStart, afterRun, spawns>>

\* (mutant) the model path is used without looking at what get_model_path returned
ModelResolveUnchecked ==
    /\ tpc = "MODEL_RESOLVE"
    /\ model_path' = get_model_path(treq.model, treq.language).path
    /\ tpc' = "INVOKE"
    /\ TrFrame
    /\ UNCHANGED <<call, files, treq, whisper_cmd, output, text, tres, atStart, afterRun, spawns>>

\* lines 428-435
ModelResolve ==
    /\ tpc = "MODEL_RESOLVE"
    /\ LET r == get_model_path(treq.model, treq.language)
       IN  /\ r.ok /\ Exists(r.path)
           /\ model_path' = r.path
    /\ tpc' = "INVOKE"
    /\ TrFrame
    /\ UNCHANGED <<call, files, treq, whisper_cmd, output, text, tres, atStart, afterRun, spawns>>

\* the bytes the subprocess may print
Stdouts == {<<" ">>, <<" ", "h", " ">>, <<"BIN">>}
Stderrs == {<<>>, <<"e">>, <<"BIN">>}
\* the side files the subprocess may write (never over its input), and with what
SidePaths(audio) ==
    {WithExtensionAppend(audio, <<"txt">>), FirstSidePath(audio), SecondSidePath(audio)}
    \ {audio}
SideTexts == {<<" ">>, <<" ", "q", " ">>}
EngineWrites(fs, audio) ==
    {fs} \cup {PutFile(fs, p, t) : p \in SidePaths(audio), t \in SideTexts}

\* line 449: the call is inside cmd.output(), which has
\* spawned the subprocess and waits for it to end, without a timeout
EngineRunning == tpc = "INVOKE" /\ spawns = 1

\* lines 439-454: cmd.output() fails, no subprocess ran
InvokeSpawnFails ==
    /\ tpc = "INVOKE"
    /\ spawns = 0
    /\ spawns' = spawns + 1
    /\ tres' = TranscriptionError("Failed to execute whisper command", {}, NoOutput)
    /\ tpc' = "ERROR"
    /\ TrFrame
    /\ UNCHANGED <<call, files, treq, whisper_cmd, model_path, output, text, atStart, afterRun>>

\* lines 439-449: the command is built and cmd.output() spawns the subprocess;
\* the call waits for it
InvokeSpawn ==
    /\ tpc = "INVOKE"
    /\ spawns = 0
    /\ spawns' = spawns + 1
    /\ TrFrame
    /\ UNCHANGED <<call, files, treq, whisper_cmd, model_path, output, text, tres, atStart,
                   afterRun, tpc>>

\* lines 449-471: the subprocess, which wrote what it wrote, exited with a
\* non-zero status and cmd.output() returns
InvokeExitNonZero ==
    /\ EngineRunning
    /\ \E out \in Stdouts, err \in Stderrs :
          output' = [spawned |-> TRUE, success |-> FALSE, code |-> 1, stdout |-> out, stderr |-> err]
    /\ files' \in EngineWrites(files, treq.audio_path)
    /\ afterRun' = files'
    /\ tres' = TranscriptionError("Whisper transcription failed", {}, output')
    /\ tpc' = "ERROR"
    /\ TrFrame
    /\ UNCHANGED <<call, treq, whisper_cmd, model_path, text, atStart, spawns>>

\* lines 449-471: the subprocess, which wrote what it wrote, exited with
\* status 0 and cmd.output() returns
Invoke ==
    /\ EngineRunning
    /\ \E out \in Stdouts, err \in Stderrs :
          output' = [spawned |-> TRUE, success |-> TRUE, code |-> 0, stdout |-> out, stderr |-> err]
    /\ files' \in EngineWrites(files, treq.audio_path)
    /\ afterRun' = files'
    /\ tpc' = "PARSE_OUTPUT"
    /\ TrFrame
    /\ UNCHANGED <<call, treq, whisper_cmd, model_path, text, tres, atStart, spawns>>

\* lines 473-495; wav_path is audio_path_buf (line 402)
ParseOutput ==
    /\ tpc = "PARSE_OUTPUT"
    /\ LET st == ParseOutputOf(files, treq.audio_path, FromUtf8Lossy(output.stdout))
       IN  /\ text' = st.text
           /\ files' = st.fs
    /\ tpc' = "CLEANUP"
    /\ TrFrame
    /\ UNCHANGED <<call, treq, whisper_cmd, model_path, output, tres, atStart, afterRun, spawns>>

\* lines 497-507: wav_path is audio_path_buf, so nothing is removed; the text is empty
CleanupEmpty ==
    /\ tpc = "CLEANUP"
    /\ text = <<>>
    /\ tres' = TranscriptionError("Whisper returned empty transcription", {}, output)
    /\ tpc' = "ERROR"
    /\ TrFrame
    /\ UNCHANGED <<call, files, treq, whisper_cmd, model_path, output, text, atStart, afterRun, spawns>>

\* lines 497-514
Cleanup ==
    /\ tpc = "CLEANUP"
    /\ text # <<>>
    /\ tres' = TranscriptionResult(text, treq.language)
    /\ tpc' = "DONE"
    /\ TrFrame
    /\ UNCHANGED <<call, files, treq, whisper_cmd, model_path, output, text, atStart, afterRun, spawns>>

\* the discovery functions, which wait for the children they spawn
DiscoveryFns == {"check_whisper_available", "verify_whisper_path", "find_whisper_binary"}

\* the engine files another process may create or remove meanwhile, and the
\* commands whose --help outcome it may change
EnvFiles == {UserPath, InstallBinaries[4], Bare("main")}
EnvCommands == {UserPath, Bare("whisper"), Bare("main")}
MaxEnvChanges == 2

\* lines 71, 83, 93, 162, 553 and 449: while a call waits inside
\* Command::output(), another process creates or removes an engine file, or
\* installs or breaks a command; the call reads the environment again when the
\* wait is over
EnvChange ==
    /\ \/ call.fn \in DiscoveryFns /\ ~call.returned
       \/ EngineRunning
    /\ call.changes < MaxEnvChanges
    /\ \/ \E p \in EnvFiles :
             /\ p.dir = WhisperDir => dirExists
             /\ files' = IF p \in DOMAIN files THEN RemoveFile(files, p)
                                               ELSE PutFile(files, p, <<"BIN">>)
             /\ UNCHANGED probe
       \/ \E cmd \in EnvCommands :
             /\ probe' = [probe EXCEPT ![cmd] = IF @.ran THEN NoRun ELSE Ran(TRUE, {}, {}, TRUE)]
             /\ UNCHANGED files
    /\ call' = [call EXCEPT !.changes = @ + 1]
    /\ UNCHANGED <<dlVars, home, target_os, trVars>>

TranscribeNext ==
    \/ InputCheckFails
    \/ InputCheck
    \/ EngineWaits
    \/ EngineResolveFails
    \/ EngineGateFails
    \/ EngineResolve
    \/ ModelResolveFails
    \/ ModelResolve
    \/ InvokeSpawnFails
    \/ InvokeSpawn
    \/ InvokeExitNonZero
    \/ Invoke
    \/ ParseOutput
    \/ CleanupEmpty
    \/ Cleanup
    \/ EnvChange

\* ------------------------------------------- discovery and selection calls
CallFrame == UNCHANGED <<dlVars, envVars, trVars>>

\* lines 65-71: the call is entered and runs up to its first wait, or returns
CheckWhisperAvailable(saved_path) ==
    /\ call.fn = "none"
    /\ call' = CheckSaved(NewCall("check_whisper_available", saved_path))
    /\ CallFrame

\* lines 151-162
VerifyWhisperPath(path) ==
    /\ call.fn = "none"
    /\ call' = VerifyStart(NewCall("verify_whisper_path", path))
    /\ CallFrame

\* lines 517-553
FindWhisperBinary ==
    /\ call.fn = "none"
    /\ call' = FindStart(NewCall("find_whisper_binary", NoPath))
    /\ CallFrame

\* lines 71, 83, 93, 162, 553: the child the call waits for exits, output()
\* returns and the call goes on to its next wait or to its return
ChildExits ==
    /\ call.fn \in DiscoveryFns /\ ~call.returned
    /\ call.child.exits
    /\ call' = Reap(call)
    /\ CallFrame

\* the operating systems install_whisper tells apart, and any other
Platforms == {"windows", "macos", "linux", "other"}

\* InstallResult, or the Err of the Result
InstallResult(ok, success, message, path) ==
    [ok |-> ok, success |-> success, message |-> message, path |-> path]

\* install_whisper returns result
InstallReturns(result) ==
    [fn |-> "install_whisper", returned |-> TRUE, line |-> 0, model |-> 0, result |-> result]

\* install_whisper waits in the output() of the given source line (for the
\* download of the model-th model at line 649)
InstallWaits(line, model) ==
    [fn |-> "install_whisper", returned |-> FALSE, line |-> line, model |-> model,
     result |-> InstallResult(FALSE, FALSE, "", NoPath)]

\* path.exists() in the file system whose other files are fs
ExistsIn(fs, p) == p \in DOMAIN fs \/ (p \in DOMAIN fsName /\ fsName[p] # 0)

\* line 594: whisper_dir.join("whisper.zip")
WhisperZip == Join(WhisperDir, <<"whisper", "zip">>)

\* lines 630-633: the two models, as paths of whisper_dir
InstallModels ==
    << Join(WhisperDir, <<"ggml-base", "en", "bin">>), Join(WhisperDir, <<"ggml-base", "bin">>) >>

\* what the archive may unpack: the binaries discovery looks for first
Unpacked == { {}, {InstallBinaries[1]}, {InstallBinaries[2]}, {InstallBinaries[1], InstallBinaries[2]} }

\* lines 660-675: the binary found, else the directory
InstallDone(fs) ==
    InstallResult(TRUE, TRUE, "Whisper.cpp installed to",
                  IF ExistsIn(fs, InstallBinaries[1]) THEN InstallBinaries[1]
                  ELSE IF ExistsIn(fs, InstallBinaries[2]) THEN InstallBinaries[2]
                  ELSE Join(WhisperDir, <<>>))

\* lines 635-661: the loop from the i-th model on, up to the next powershell:
\* it is spawned and waited for, or cannot be spawned; a model that exists is
\* skipped
InstallModelsFrom(fs, i) ==
    LET missing == {j \in i .. Len(InstallModels) : ~ExistsIn(fs, InstallModels[j])}
    IN  IF missing = {} THEN {InstallReturns(InstallDone(fs))}
        ELSE {InstallWaits(649, CHOOSE j \in missing : \A k \in missing : j <= k),
              InstallReturns(InstallResult(FALSE, FALSE, "Failed to download model", NoPath))}

\* lines 580-716: after the directory, by platform, up to the first wait
InstallPlatform ==
    CASE target_os = "windows" ->
            {InstallWaits(597, 0),
             InstallReturns(InstallResult(FALSE, FALSE, "Failed to download", NoPath))}
      [] target_os = "macos" ->
            {InstallWaits(682, 0),
             InstallReturns(InstallResult(TRUE, FALSE, "Failed to install via Homebrew", NoPath))}
      [] target_os = "linux" ->
            {InstallReturns(InstallResult(TRUE, FALSE, "Please install whisper.cpp manually", NoPath))}
      [] OTHER ->
            {InstallReturns(InstallResult(TRUE, FALSE, "Unsupported platform", NoPath))}

InstallFrame ==
    UNCHANGED <<fsName, fsData, reqIds, bodyLimit, budget, pc, req, fd, fpos, clen, total_size,
                downloaded, elapsed, quiet, events, io, complete, ret, prev,
                home, target_os, trVars>>

\* lines 565-597 (682 on macOS): the home directory, whisper_dir created when
\* missing, then the block of the platform up to its first wait or its return
InstallWhisper ==
    /\ call.fn = "none"
    /\ \/ /\ home = ""
          /\ call' = InstallReturns(InstallResult(FALSE, FALSE, "Could not find home directory", NoPath))
          /\ UNCHANGED dirExists
       \/ /\ home # "" /\ ~dirExists
          /\ call' = InstallReturns(InstallResult(FALSE, FALSE, "Failed to create directory", NoPath))
          /\ UNCHANGED dirExists
       \/ /\ home # ""
          /\ dirExists' = TRUE
          /\ call' \in InstallPlatform
    /\ UNCHANGED <<files, probe>>
    /\ InstallFrame

\* lines 597-618 (Windows): the download of the archive has ended
InstallDownloaded ==
    /\ call.fn = "install_whisper" /\ ~call.returned /\ call.line = 597
    /\ \/ /\ call' = InstallReturns(InstallResult(TRUE, FALSE, "Failed to download whisper.cpp. Please install manually.", NoPath))
          /\ UNCHANGED files
       \/ /\ files' = PutFile(files, WhisperZip, <<"BIN">>)
          /\ call' \in {InstallWaits(618, 0),
                        InstallReturns(InstallResult(FALSE, FALSE, "Failed to extract", NoPath))}
    /\ UNCHANGED <<dirExists, probe>>
    /\ InstallFrame

\* lines 618-649 (Windows): the unpacking has ended
InstallExtracted ==
    /\ call.fn = "install_whisper" /\ ~call.returned /\ call.line = 618
    /\ \/ /\ call' = InstallReturns(InstallResult(TRUE, FALSE, "Failed to extract whisper.cpp. Please install manually.", NoPath))
          /\ UNCHANGED files
       \/ \E bins \in Unpacked :
             /\ files' = [p \in DOMAIN files \cup bins |->
                             IF p \in DOMAIN files THEN files[p] ELSE <<"BIN">>]
             /\ call' \in InstallModelsFrom(files', 1)
    /\ UNCHANGED <<dirExists, probe>>
    /\ InstallFrame

\* lines 649-675 (Windows): the download of a model has ended, with the file
\* written or, the failure only logged, without it
InstallModelDownloaded ==
    /\ call.fn = "install_whisper" /\ ~call.returned /\ call.line = 649
    /\ \/ files' = PutFile(files, InstallModels[call.model], <<"BIN">>)
       \/ UNCHANGED files
    /\ call' \in InstallModelsFrom(files', call.model + 1)
    /\ UNCHANGED <<dirExists, probe>>
    /\ InstallFrame

\* lines 682-699 (macOS): brew install whisper-cpp has ended; when it
\* succeeded, commands of the formula are on PATH
InstallBrewed ==
    /\ call.fn = "install_whisper" /\ ~call.returned /\ call.line = 682
    /\ \/ /\ call' = InstallReturns(InstallResult(TRUE, FALSE, "Failed to install via Homebrew", NoPath))
          /\ UNCHANGED probe
       \/ /\ \E cmds \in {{Bare("whisper-cpp")}, {Bare("whisper"), Bare("whisper-cpp")}} :
                probe' = [cmd \in DOMAIN probe |->
                             IF cmd \in cmds THEN Ran(TRUE, {}, {}, TRUE) ELSE probe[cmd]]
          /\ call' = InstallReturns(InstallResult(TRUE, TRUE, "Whisper.cpp installed via Homebrew",
                                                 Bare("whisper")))
    /\ UNCHANGED <<dirExists, files>>
    /\ InstallFrame

\* get_model_path is called at most once, possibly after install_whisper
GetModelPath(model, language) ==
    /\ call.fn = "none" \/ (call.fn = "install_whisper" /\ call.returned)
    /\ call' = [fn |-> "get_model_path", model |-> model, language |-> language,
                result |-> get_model_path(model, language)]
    /\ CallFrame

\* ------------------------------------------------------------ initial states
\* no download_whisper_model call is made
DlIdle ==
    /\ dirExists \in BOOLEAN
    /\ fsName = [p \in DlPaths |-> 0]
    /\ fsData = [i \in Inodes |-> <<>>]
    /\ complete = [u \in {DownloadUrl(ModelsInfo[i].filename) : i \in DOMAIN ModelsInfo} |-> {}]
    /\ reqIds = {}
    /\ bodyLimit = 0
    /\ budget = [c \in Callers |-> 0]
    /\ pc = [c \in Callers |-> "idle"]
    /\ req = [c \in Callers |-> "tiny"]
    /\ fd = [c \in Callers |-> 0]
    /\ fpos = [c \in Callers |-> 0]
    /\ clen = [c \in Callers |-> -1]
    /\ total_size = [c \in Callers |-> 0]
    /\ downloaded = [c \in Callers |-> 0]
    /\ elapsed = [c \in Callers |-> 0]
    /\ quiet = [c \in Callers |-> 0]
    /\ events = [c \in Callers |-> <<>>]
    /\ io = [c \in Callers |-> [http |-> 0, fsops |-> 0, faults |-> 0]]
    /\ ret = [c \in Callers |-> NoResult]
    /\ prev = [c \in Callers |-> NoSummary]

\* no transcribe_audio call is made
TrIdle ==
    /\ tpc = "idle"
    /\ treq = [audio_path |-> NoPath, language |-> "", model |-> "", whisper_path |-> NoPath]
    /\ whisper_cmd = NoPath
    /\ model_path = NoPath
    /\ output = NoOutput
    /\ text = <<>>
    /\ tres = NoTranscription
    /\ atStart = << >>
    /\ afterRun = << >>
    /\ spawns = 0

\* the commands that may be run with --help
Commands == {UserPath} \cup Range(InstallBinaries) \cup Range(PathCandidates)

OkSilent == Ran(TRUE, {}, {}, TRUE)
FailSilent == Ran(FALSE, {}, {}, TRUE)

\* a set of paths as existing files without content of interest
FilesOf(paths) == [p \in paths |-> <<"BIN">>]

\* whisper_dir exists when a file in it or below it does
DirConsistent ==
    (\E p \in DOMAIN files : p.dir \in {WhisperDir, WhisperModelsDir}) => dirExists

\* Initially whisper_dir may not exist, or exist and hold the complete file of a
\* model an earlier session installed (inode 1, the body of caller 0).
DlInit(ids, calls, homes, chunks) ==
    /\ home \in homes
    /\ target_os = "linux"
    /\ \E pre \in {"none"} \cup (ids \cap ModelIds) :
          /\ dirExists \in (IF pre = "none" THEN BOOLEAN ELSE {TRUE})
          /\ fsName = [p \in DlPaths |->
                          IF pre # "none" /\ p = ModelPath([download_url |-> DownloadUrl(InfoOf(pre).filename)]) THEN 1 ELSE 0]
          /\ fsData = [i \in Inodes |-> IF pre # "none" /\ i = 1 THEN Body(0, 0, 1) ELSE <<>>]
          /\ complete = [u \in {DownloadUrl(ModelsInfo[i].filename) : i \in DOMAIN ModelsInfo} |->
                            IF pre # "none" /\ u = [download_url |-> DownloadUrl(InfoOf(pre).filename)].download_url
                            THEN {Body(0, 0, 1)} ELSE {}]
    /\ reqIds = ids
    /\ bodyLimit = chunks
    /\ budget = calls
    /\ pc = [c \in Callers |-> "idle"]
    /\ req = [c \in Callers |-> "tiny"]
    /\ fd = [c \in Callers |-> 0]
    /\ fpos = [c \in Callers |-> 0]
    /\ clen = [c \in Callers |-> -1]
    /\ total_size = [c \in Callers |-> 0]
    /\ downloaded = [c \in Callers |-> 0]
    /\ elapsed = [c \in Callers |-> 0]
    /\ quiet = [c \in Callers |-> 0]
    /\ events = [c \in Callers |-> <<>>]
    /\ io = [c \in Callers |-> [http |-> 0, fsops |-> 0, faults |-> 0]]
    /\ ret = [c \in Callers |-> NoResult]
    /\ prev = [c \in Callers |-> NoSummary]
    /\ files = << >>
    /\ probe = [cmd \in Commands |-> NoRun]
    /\ call = NoCall
    /\ TrIdle

\* one caller, calling download_whisper_model again and again
SeqIds == {"tiny", "large", "unknown"}
DownloadInit ==
    DlInit(SeqIds, [c \in Callers |-> IF c = 1 THEN MaxCalls ELSE 0], {"home", ""}, MaxBody)
DownloadNext == \E c \in Callers : SequentialStep(c)
SpecDownload == DownloadInit /\ [][DownloadNext]_vars

\* two callers, each calling download_whisper_model, in any interleaving
RaceIds == {"tiny-multi"}
RaceInit == DlInit(RaceIds, [c \in Callers |-> RaceCalls], {"home"}, MaxBody)
RaceNext == \E c \in Callers : ConcurrentStep(c)
SpecRace == RaceInit /\ [][RaceNext]_vars

\* one caller and one call, whose body is long enough for chunks to arrive
\* between two progress events
ThrottleIds == {"tiny", "unknown"}
ThrottleInit ==
    DlInit(ThrottleIds, [c \in Callers |-> IF c = 1 THEN 1 ELSE 0], {"home", ""}, ThrottleBody)
SpecThrottle == ThrottleInit /\ [][DownloadNext]_vars

\* ---- engine discovery: the three entry points applied to an environment
ProbeSaved == {NoPath, UserPath, InstallBinaries[3], Bare("main")}
ProbeInstalled == {{}, {InstallBinaries[1]}, {InstallBinaries[3]}, {InstallBinaries[2], InstallBinaries[4]}}
FailWhisperOut == Ran(FALSE, {"whisper"}, {}, TRUE)
FailUsageErr == Ran(FALSE, {}, {"usage"}, TRUE)
FailBadUtf8 == Ran(FALSE, {"whisper"}, {}, FALSE)

ProbeInit ==
    /\ home \in {"home", ""}
    /\ target_os = "linux"
    /\ DlIdle
    /\ TrIdle
    /\ call = NoCall
    /\ \E user \in BOOLEAN, inst \in ProbeInstalled, cwd \in {{}, {Bare("main")}} :
          files = FilesOf((IF user THEN {UserPath} ELSE {}) \cup inst \cup cwd)
    /\ DirConsistent
    /\ \E u \in {NoRun, OkSilent, FailSilent, FailUsageErr},
          i \in {OkSilent, FailSilent},
          w \in {NoRun, OkSilent, FailSilent},
          m \in {NoRun, OkSilent, FailSilent, FailWhisperOut, FailBadUtf8} :
          probe = [cmd \in Commands |->
                      CASE cmd = UserPath -> u
                        [] cmd \in Range(InstallBinaries) -> i
                        [] cmd = Bare("whisper") -> w
                        [] cmd = Bare("whisper-cpp") -> NoRun
                        [] OTHER -> m]

ProbeNext ==
    \/ \E saved_path \in ProbeSaved : CheckWhisperAvailable(saved_path)
    \/ \E path \in {UserPath, InstallBinaries[1]} : VerifyWhisperPath(path)
    \/ FindWhisperBinary
    \/ ChildExits
    \/ EnvChange

SpecProbe == ProbeInit /\ [][ProbeNext]_vars

\* ---- a discovery call in an environment where a command may never exit
ProbeLiveInit ==
    /\ home = "home"
    /\ target_os = "linux"
    /\ DlIdle
    /\ TrIdle
    /\ call = NoCall
    /\ \E user \in BOOLEAN, inst \in {{}, {InstallBinaries[3]}} :
          files = FilesOf((IF user THEN {UserPath} ELSE {}) \cup inst)
    /\ DirConsistent
    /\ \E u \in {OkSilent, FailSilent, Hangs},
          w \in {NoRun, OkSilent, Hangs},
          m \in {NoRun, OkSilent, Hangs} :
          probe = [cmd \in Commands |->
                      CASE cmd = UserPath -> u
                        [] cmd \in Range(InstallBinaries) -> OkSilent
                        [] cmd = Bare("whisper") -> w
                        [] cmd = Bare("whisper-cpp") -> NoRun
                        [] OTHER -> m]

ProbeLiveNext ==
    \/ \E saved_path \in {NoPath, UserPath} : CheckWhisperAvailable(saved_path)
    \/ VerifyWhisperPath(UserPath)
    \/ FindWhisperBinary
    \/ ChildExits

\* a child that exits is reaped: output() returns
SpecProbeLive == ProbeLiveInit /\ [][ProbeLiveNext]_vars /\ WF_vars(ChildExits)

\* ---- model selection: get_model_path applied to a file system
ModelDirs == {WhisperModelsDir, WhisperDir, CacheDir, WhisperCppModelsDir, ModelsDir, WorkingDir}
ModelFileNames == {MultilingualName("base"), EnglishName("base"), MultilingualName("large")}
ModelFiles == {Join(d, n) : d \in ModelDirs, n \in ModelFileNames}
MaxModelFiles == 2
ModelRequests ==
    {"tiny", "tiny.en", "base", "base.en", "small", "small.en", "medium", "medium.en",
     "large", "large.en", "huge"}
Languages == {"en", "de"}

ModelInit ==
    /\ home \in {"home", ""}
    /\ target_os \in Platforms
    /\ DlIdle
    /\ TrIdle
    /\ call = NoCall
    /\ probe = [cmd \in Commands |-> NoRun]
    /\ \E S \in SUBSET ModelFiles : Cardinality(S) <= MaxModelFiles /\ files = FilesOf(S)
    /\ DirConsistent

ModelNext ==
    \/ \E model \in ModelRequests, language \in Languages : GetModelPath(model, language)
    \/ InstallWhisper
    \/ InstallDownloaded
    \/ InstallExtracted
    \/ InstallModelDownloaded
    \/ InstallBrewed

SpecModel == ModelInit /\ [][ModelNext]_vars

\* ---- transcription: one transcribe_audio call in an environment
AudioPaths ==
    {Join("audio", n) : n \in {<<"rec", "wav">>, <<"rec", "mp3">>, <<"rec", "txt">>, <<"rec">>,
                                <<"", "hidden">>}}
TrModelSets ==
    { {}, {Join(WhisperDir, MultilingualName("base"))}, {Join(ModelsDir, EnglishName("base"))} }
TrEngineSets == { {}, {UserPath}, {InstallBinaries[4]} }

TranscribeInit ==
    /\ home = "home"
    /\ target_os = "linux"
    /\ DlIdle
    /\ call = NoCall
    /\ \E a \in AudioPaths, l \in Languages, w \in {NoPath, UserPath} :
          treq = [audio_path |-> a, language |-> l, model |-> "base", whisper_path |-> w]
    /\ \E present \in BOOLEAN, eng \in TrEngineSets, mods \in TrModelSets :
          /\ present \/ treq.audio_path = Join("audio", <<"rec", "wav">>)
          /\ files = FilesOf((IF present THEN {treq.audio_path} ELSE {}) \cup eng \cup mods)
    /\ DirConsistent
    /\ \E w \in {NoRun, OkSilent}, m \in {NoRun, OkSilent} :
          probe = [cmd \in Commands |->
                      CASE cmd = Bare("whisper") -> w
                        [] cmd = Bare("main") -> m
                        [] cmd = Bare("whisper-cpp") -> NoRun
                        [] OTHER -> FailSilent]
    /\ tpc = "INPUT_CHECK"
    /\ whisper_cmd = NoPath
    /\ model_path = NoPath
    /\ output = NoOutput
    /\ text = <<>>
    /\ tres = NoTranscription
    /\ atStart = << >>
    /\ afterRun = << >>
    /\ spawns = 0

SpecTranscribe == TranscribeInit /\ [][TranscribeNext]_vars

\* ------------------------------------------------------------------ claims

\* C1. Atomicity: whatever a call does and however it fails (stream, write,
\* flush or rename error), the file under a model's final name either does not
\* exist or holds a complete body, one whose stream ended without error;
\* partial content is only ever under the temporary name.
C1_Atomicity ==
    \A i \in DOMAIN ModelsInfo :
        LET m == WhisperModelOf(ModelsInfo[i])
        IN  Exists(ModelPath(m)) => fsData[fsName[ModelPath(m)]] \in complete[m.download_url]

\* a call failed mid-stream after a chunk was written: the partial content is
\* under the temporary name and the final name does not exist
C1_Witness ==
    \E c \in Callers :
        LET m == FindModel(req[c])
        IN  /\ req[c] \in ModelIds
            /\ Idle(c) /\ ret[c].done /\ ~ret[c].ok
            /\ ret[c].message \in {"Download error", "Failed to write to file"}
            /\ io[c].fsops >= 2
            /\ Exists(TempPath(m))
            /\ Len(fsData[fsName[TempPath(m)]]) >= 1
            /\ fsData[fsName[TempPath(m)]] \notin complete[m.download_url]
            /\ ~Exists(ModelPath(m))

\* C2. Idempotence: a call for a model whose file exists under its final name
\* returns at once with success and the installed path, sends no HTTP request,
\* changes no file and emits no event; when the call before it was for the same
\* installed model, both returned the same path.
C2_Idempotent ==
    [][\A c \in Callers :
          (/\ Idle(c) /\ budget'[c] < budget[c]
           /\ req'[c] \in ModelIds
           /\ Exists(ModelPath(FindModel(req'[c]))))
          => (/\ pc'[c] = "idle"
              /\ ret'[c].done /\ ret'[c].ok
              /\ ret'[c].model_path = ModelPath(FindModel(req'[c]))
              /\ io'[c].http = 0 /\ io'[c].fsops = 0
              /\ events'[c] = <<>>
              /\ fsName' = fsName /\ fsData' = fsData /\ dirExists' = dirExists
              /\ (prev'[c].done /\ prev'[c].model_id = req'[c])
                    => (/\ prev'[c].ok
                        /\ prev'[c].model_path = ret'[c].model_path
                        /\ prev'[c].http = 0 /\ prev'[c].fsops = 0
                        /\ prev'[c].nevents = 0))]_vars

\* two calls in a row for the same installed model have returned
C2_Witness ==
    \E c \in Callers :
        /\ Idle(c) /\ ret[c].done /\ ret[c].message = "Model already installed"
        /\ prev[c].done /\ prev[c].model_id = req[c]
        /\ Exists(ModelPath(FindModel(req[c])))

\* C3. Progress monotonicity: in the events of one call the `downloaded` values
\* never decrease, and the last event of a call that returned success after a
\* transfer has percentage 100.0.
C3_ProgressMonotone ==
    \A c \in Callers :
        /\ \A i \in 1 .. Len(events[c]) - 1 :
                events[c][i].downloaded <= events[c][i + 1].downloaded
        /\ (ret[c].done /\ ret[c].ok /\ events[c] # <<>>)
                => IsPercent(Last(events[c]).percentage, 100)

\* the sizes that have a language-restricted variant
RestrictedSizes == {"tiny", "base", "small", "medium"}

\* C4. Fallback of get_model_path: for a language other than "en" and a size
\* with a restricted variant, when the multilingual file is at none of the
\* candidate locations and the .en file is at some location of the candidate
\* list, the call returns the path of the .en file with a warning, not an error.
C4_FallbackAnywhere ==
    (/\ call.fn = "get_model_path"
     /\ call.language # "en"
     /\ call.model \in RestrictedSizes
     /\ \A i \in DOMAIN SearchPaths(MultilingualName(call.model)) :
           ~Exists(SearchPaths(MultilingualName(call.model))[i])
     /\ \E i \in DOMAIN SearchPaths(EnglishName(call.model)) :
           Exists(SearchPaths(EnglishName(call.model))[i]))
    => /\ call.result.ok
       /\ call.result.warned
       /\ call.result.path \in Range(SearchPaths(EnglishName(call.model)))
       /\ Exists(call.result.path)

\* a candidate whose probe cannot be run, or exits non-zero without a marker
\* of the tool family in its output
ProbeFailsUnmarked(cand) == ~Help(cand).ran \/ ~LooksLikeWhisper(Help(cand))

\* C5. Probe correctness, negative side: in verify_whisper_path,
\* check_whisper_available and find_whisper_binary, a candidate whose probe
\* exits non-zero (or cannot be run) and prints no marker is never reported as
\* available and never returned as the engine to use.
\* (Stated for calls during which no other process changed the environment.)
C5_FailedProbeUnavailable ==
    (/\ call.fn \in DiscoveryFns /\ call.returned /\ call.changes = 0
     /\ (IF call.fn = "find_whisper_binary" THEN call.result ELSE call.result.path) # NoPath)
    => ~ProbeFailsUnmarked(IF call.fn = "find_whisper_binary"
                           THEN call.result ELSE call.result.path)

\* the candidate runs and its --help exits zero
ProbeExitsZero(cand) == Help(cand).ran /\ Help(cand).success

\* C6. Probe correctness, positive side: a candidate whose --help exits zero is
\* classified available whatever it prints: the saved path and the bare
\* commands whisper and main in check_whisper_available, and the path given to
\* verify_whisper_path.
\* (Stated for calls during which no other process changed the environment.)
C6_ExitZeroAvailable ==
    /\ (/\ call.fn = "check_whisper_available" /\ call.returned /\ call.changes = 0
        /\ \/ (call.arg # NoPath /\ ProbeExitsZero(call.arg))
           \/ ProbeExitsZero(Bare("whisper"))
           \/ ProbeExitsZero(Bare("main")))
       => call.result.available
    /\ (/\ call.fn = "verify_whisper_path" /\ call.returned /\ call.changes = 0
        /\ ProbeExitsZero(call.arg))
       => call.result.available /\ call.result.path = call.arg

\* the locations transcribe_audio looks at for an engine
EngineLocations(whisper_path) ==
    (IF whisper_path # NoPath THEN {whisper_path} ELSE {})
    \cup Range(InstallBinaries) \cup Range(PathCandidates)

\* C7. Total failure: when no engine candidate probes successfully anywhere (no
\* usable override, nothing in the installation directory, no working command
\* on PATH), transcribe_audio fails with a not-found error whose message
\* enumerates every location that was checked.
\* (Stated for calls during which no other process changed the environment.)
C7_NotFoundListsLocations ==
    (/\ tpc \notin {"idle", "INPUT_CHECK", "ENGINE_RESOLVE"}
     /\ treq.audio_path \in DOMAIN atStart
     /\ call.changes = 0
     /\ \A cand \in EngineLocations(treq.whisper_path) : ~ProbeExitsZero(cand))
    => /\ tpc = "ERROR"
       /\ tres.message \in {"Whisper binary not found. Saved path does not exist and no whisper found in PATH.",
                            "Whisper binary not found. Please install whisper.cpp or configure the path in Settings.",
                            "Whisper binary not found at path"}
       /\ EngineLocations(treq.whisper_path) \subseteq tres.listed

\* the side files named by the specification, in the order they are tried: the
\* audio path with .txt appended, then with its extension replaced by .txt
SideFileOrder(audio) == <<WithExtensionAppend(audio, <<"txt">>), WithExtension(audio, <<"txt">>)>>

\* C8. Side file: when the engine exits 0 with whitespace-only stdout, the first
\* side file found (audio path with .txt appended, then with the extension
\* replaced by .txt) is read, its trimmed content becomes the result text, and
\* the side file no longer exists when the call returns.
C8_SideFileRead ==
    (/\ tpc \in {"DONE", "ERROR"}
     /\ output.spawned /\ output.success
     /\ Trim(output.stdout) = <<>>
     /\ FirstIn(SideFileOrder(treq.audio_path), DOMAIN afterRun) # 0
     /\ LET p == SideFileOrder(treq.audio_path)[
                    FirstIn(SideFileOrder(treq.audio_path), DOMAIN afterRun)]
        IN  p # treq.audio_path /\ Trim(afterRun[p]) # <<>>)
    => LET p == SideFileOrder(treq.audio_path)[
                    FirstIn(SideFileOrder(treq.audio_path), DOMAIN afterRun)]
       IN  /\ tpc = "DONE"
           /\ tres.text = Trim(afterRun[p])
           /\ p \notin DOMAIN files

\* C9. The caller's audio file is never deleted: for every audio path and every
\* outcome, an audio file that existed when the call started still exists when
\* the call returns.
C9_AudioKept ==
    (/\ tpc \in {"DONE", "ERROR"}
     /\ treq.audio_path \in DOMAIN atStart)
    => treq.audio_path \in DOMAIN files


\* C10. Two callers downloading the same model, neither meeting a network or
\* file error of the environment: both return success, and once both have
\* returned the final file exists.
C10_RaceSilent ==
    \A c1, c2 \in Callers :
        (/\ c1 # c2
         /\ req[c1] = req[c2]
         /\ Idle(c1) /\ ret[c1].done /\ io[c1].faults = 0
         /\ Idle(c2) /\ ret[c2].done /\ io[c2].faults = 0)
        => (/\ ret[c1].ok /\ ret[c2].ok
            /\ Exists(ModelPath(FindModel(req[c1]))))
\* C11. Rename atomicity under concurrency: in every interleaving of two
\* concurrent download_whisper_model calls (same or different models), a file
\* under a final model name, whenever it exists, holds exactly one complete
\* download, never partial or intermixed content.
C11_ConcurrentAtomicity ==
    \A i \in DOMAIN ModelsInfo :
        LET final == ModelPath(WhisperModelOf(ModelsInfo[i]))
        IN  (final \in DOMAIN fsName /\ fsName[final] # 0)
            => \E c \in Callers \cup {0}, callno \in 0..RaceCalls, n \in 0..MaxBody :
                  fsData[fsName[final]] = Body(c, callno, n)


\* position of a stage in the chain of transcribe_audio
StageRank(stage) ==
    CASE stage = "INPUT_CHECK" -> 1
      [] stage = "ENGINE_RESOLVE" -> 2
      [] stage = "MODEL_RESOLVE" -> 3
      [] stage = "INVOKE" -> 4
      [] stage = "PARSE_OUTPUT" -> 5
      [] stage = "CLEANUP" -> 6
      [] stage = "DONE" -> 7
      [] OTHER -> 0

\* C12. transcribe_audio is a linear, retry-free state machine: every step goes
\* to the next stage of INPUT_CHECK, ENGINE_RESOLVE, MODEL_RESOLVE, INVOKE,
\* PARSE_OUTPUT, CLEANUP, DONE or to ERROR with an error result; ERROR and DONE
\* are terminal; the subprocess is spawned at most once, in INVOKE, and only
\* after the audio file was found, an engine command resolved and the model
\* file found.
C12_LinearMachine ==
    [][/\ tpc' # tpc =>
             \/ tpc' = "ERROR" /\ tpc \notin {"DONE", "ERROR"}
             \/ StageRank(tpc) >= 1 /\ StageRank(tpc') = StageRank(tpc) + 1
       /\ tpc \in {"DONE", "ERROR"} => UNCHANGED vars
       /\ tpc' = "ERROR" => tres'.done /\ ~tres'.ok
       /\ tpc' = "DONE" => tres'.done /\ tres'.ok
       /\ spawns' <= 1
       /\ spawns' # spawns =>
             /\ tpc = "INVOKE" /\ spawns = 0
             /\ treq.audio_path \in DOMAIN atStart
             /\ whisper_cmd # NoPath
             /\ model_path # NoPath /\ Exists(model_path)]_vars

C12_Witness == tpc = "DONE" /\ spawns = 1 /\ tres.ok


\* C13. The engine command spawned in INVOKE is the caller-supplied path when it
\* exists, or else a candidate whose probe run succeeded; a candidate that was
\* never probed or whose probe failed is never spawned.
\* (The probe meant is the one find_whisper_binary ran and waited for.)
C13_SpawnedEngineVerified ==
    output.spawned =>
        \/ treq.whisper_path # NoPath /\ whisper_cmd = treq.whisper_path
                                      /\ treq.whisper_path \in DOMAIN atStart
        \/ /\ call.fn = "find_whisper_binary" /\ call.at = whisper_cmd
           /\ call.child.ran /\ call.child.success


\* C14. When get_model_path finds neither variant, its error names every path
\* that was searched, those searched for the fallback file included, and, when
\* the multilingual model was required, the download url of the missing
\* multilingual file.
C14_ErrorListsAllSearched ==
    (call.fn = "get_model_path" /\ ~call.result.ok)
    => /\ Range(SearchPaths(ModelName(call.model, call.language)))
              \subseteq Range(call.result.searched)
       /\ call.language # "en"
             => /\ Range(FallbackPaths(EnglishName(call.model)))
                      \subseteq Range(call.result.searched)
                /\ call.result.url = DownloadUrl(MultilingualName(call.model))


\* C15. A download that fails mid-stream (chunk error or write error) returns an
\* error, leaves the temporary file in place and does not create the final
\* file; the next call for the same model is not short-circuited by the
\* leftover temporary file: it goes on to a request, and its File::create
\* starts from an empty temporary file.
C15_RetryAfterFailure ==
    [][\A c \in Callers :
        LET tmp == TempPath(FindModel(req'[c]))
            final == ModelPath(FindModel(req'[c]))
        IN  /\ (pc[c] \in {"next", "write"} /\ pc'[c] = "idle"
                /\ ret'[c].message \in MidStreamErrors)
               => /\ ret'[c].done /\ ~ret'[c].ok
                  /\ fsName'[tmp] # 0
                  /\ fsName'[final] = 0
            /\ (Idle(c) /\ budget'[c] < budget[c] /\ req'[c] \in ModelIds
                /\ fsName[tmp] # 0 /\ fsName[final] = 0)
               => /\ pc'[c] = "send"
                  /\ ~ret'[c].done
                  /\ fsName' = fsName /\ fsData' = fsData
            /\ (pc[c] = "create" /\ pc'[c] = "next")
               => /\ fd'[c] = fsName'[tmp] /\ fd'[c] # 0
                  /\ fsData'[fd'[c]] = <<>>
                  /\ fpos'[c] = 0]_vars

\* a call failed mid-stream and the next call, for the same model, downloaded it
C15_Witness ==
    \E c \in Callers :
        /\ Idle(c) /\ ret[c].done /\ ret[c].ok
        /\ ret[c].message = "Model downloaded successfully"
        /\ prev[c].done /\ prev[c].message \in MidStreamErrors
        /\ prev[c].model_id = req[c]
        /\ Exists(ModelPath(FindModel(req[c])))
        /\ fsData[fsName[ModelPath(FindModel(req[c]))]]
              \in complete[FindModel(req[c]).download_url]
        /\ ~Exists(TempPath(FindModel(req[c])))


\* position of a status in the order starting, downloading, completed
StatusRank(status) ==
    CASE status = "starting" -> 1
      [] status = "downloading" -> 2
      [] status = "completed" -> 3
      [] OTHER -> 0

\* C16. Every call that performs a transfer emits exactly one "starting" event
\* (0%, downloaded 0) before any byte is transferred and, when the transfer
\* completes, exactly one "completed" event (100%) after all "downloading"
\* events, whatever the 100ms gating lets through; every status is one of
\* starting, downloading, completed, in that order.
C16_StartAndCompleteEvents ==
    \A c \in Callers :
        LET evs == events[c]
        IN  /\ \A i \in DOMAIN evs : StatusRank(evs[i].status) >= 1
            /\ \A i \in 1 .. Len(evs) - 1 :
                    StatusRank(evs[i].status) <= StatusRank(evs[i + 1].status)
            /\ Cardinality({i \in DOMAIN evs : evs[i].status = "starting"}) <= 1
            /\ Cardinality({i \in DOMAIN evs : evs[i].status = "completed"}) <= 1
            /\ \A i \in DOMAIN evs :
                    /\ evs[i].status = "starting"
                          => evs[i].downloaded = 0 /\ IsPercent(evs[i].percentage, 0)
                    /\ evs[i].status = "completed" => IsPercent(evs[i].percentage, 100)
            /\ pc[c] # "idle" => evs # <<>> /\ evs[1].status = "starting"
            /\ (io[c].http > 0 \/ fd[c] # 0 \/ downloaded[c] > 0)
                    => evs # <<>> /\ evs[1].status = "starting"
            /\ (Idle(c) /\ ret[c].done /\ ret[c].message = "Model downloaded successfully")
                    => evs # <<>> /\ evs[1].status = "starting"
                                  /\ Last(evs).status = "completed"

\* a transfer completed whose events are starting, downloading, completed
C16_Witness ==
    \E c \in Callers :
        /\ Idle(c) /\ ret[c].done /\ ret[c].message = "Model downloaded successfully"
        /\ Len(events[c]) >= 3
        /\ events[c][2].status = "downloading"
        /\ Last(events[c]).status = "completed"


\* the size tags, each with or without the .en suffix, and the size of a tag
SizeTags ==
    {"tiny", "tiny.en", "base", "base.en", "small", "small.en", "medium", "medium.en",
     "large", "large.en"}
SizeOfTag(tag) ==
    CASE tag \in {"tiny", "tiny.en"} -> "ggml-tiny"
      [] tag \in {"base", "base.en"} -> "ggml-base"
      [] tag \in {"small", "small.en"} -> "ggml-small"
      [] tag \in {"medium", "medium.en"} -> "ggml-medium"
      [] tag \in {"large", "large.en"} -> "ggml-large"
\* ggml-<size>.en.bin for "en" and a size other than large, else ggml-<size>.bin
PrimaryFileName(tag, language) ==
    IF language = "en" /\ SizeOfTag(tag) # "ggml-large"
    THEN <<SizeOfTag(tag), "en", "bin">>
    ELSE <<SizeOfTag(tag), "bin">>

\* C17. Primary file choice of get_model_path, for every size tag of tiny, base,
\* small, medium, large with or without the .en suffix and every language:
\* "en" selects ggml-<size>.en.bin, any other language ggml-<size>.bin, and
\* size large ggml-large.bin for every language. The file returned without a
\* fallback, and every path named by the error, has that name.
C17_PrimaryChoice ==
    (call.fn = "get_model_path" /\ call.model \in SizeTags)
    => /\ ModelName(call.model, call.language) = PrimaryFileName(call.model, call.language)
       /\ (call.result.ok /\ ~call.result.warned)
             => call.result.path.name = PrimaryFileName(call.model, call.language)
       /\ ~call.result.ok
             => \A i \in DOMAIN call.result.searched :
                   call.result.searched[i].name = PrimaryFileName(call.model, call.language)


\* C18. Successful transcription: when the audio file exists, the engine is
\* found at the override path, the model file is present and the engine exits 0
\* with stdout that decodes to a string s not empty once trimmed,
\* transcribe_audio returns success with text = trimmed s, the language code of the request and duration
\* 0.0, and no side file is read or deleted.
C18_StdoutResult ==
    (/\ tpc \in {"CLEANUP", "DONE", "ERROR"}
     /\ treq.audio_path \in DOMAIN atStart
     /\ treq.whisper_path # NoPath /\ treq.whisper_path \in DOMAIN atStart
     /\ output.spawned /\ output.success
     /\ Trim(FromUtf8Lossy(output.stdout)) # <<>>)
    => /\ whisper_cmd = treq.whisper_path
       /\ text = Trim(FromUtf8Lossy(output.stdout))
       /\ files = afterRun
       /\ tpc # "ERROR"
       /\ tpc = "DONE" => /\ tres.done /\ tres.ok
                          /\ tres.text = Trim(FromUtf8Lossy(output.stdout))
                          /\ tres.language = treq.language
                          /\ tres.duration = 0

\* the engine at the override path printed its text and also wrote a side file
C18_Witness ==
    /\ tpc = "DONE" /\ tres.ok
    /\ whisper_cmd = UserPath /\ treq.whisper_path = UserPath
    /\ tres.text = <<"h">>
    /\ output.stdout = <<" ", "h", " ">>
    /\ FirstSidePath(treq.audio_path) \in DOMAIN files
    /\ treq.audio_path \in DOMAIN files


\* C19. Whenever the subprocess exits with a non-zero status, transcribe_audio
\* returns an error that carries the exit code and both captured streams
\* verbatim, whatever stdout holds and whatever side file is present, and never
\* a TranscriptionResult.
C19_FailureCarriesStreams ==
    (output.spawned /\ ~output.success)
    => /\ tpc = "ERROR"
       /\ tres.done /\ ~tres.ok
       /\ tres.message = "Whisper transcription failed"
       /\ tres.code = output.code
       /\ tres.stdout = output.stdout
       /\ tres.stderr = output.stderr


\* lines 67-80: the saved path is given, exists, and its --help exits zero
SavedPathWorks(saved_path) ==
    saved_path # NoPath /\ Exists(saved_path) /\ ProbeExitsZero(saved_path)

\* C20. Discovery order, most specific first: the saved path when supplied,
\* existing and qualifying, then the installation directory, then the bare
\* commands on PATH; check_whisper_available and find_whisper_binary both
\* return a working binary of the installation directory rather than a
\* command on PATH.
\* (Stated for calls during which no other process changed the environment.)
C20_InstallDirBeforePath ==
    /\ (/\ call.fn = "check_whisper_available" /\ call.returned /\ call.changes = 0
        /\ SavedPathWorks(call.arg))
       => call.result.available /\ call.result.path = call.arg
    /\ (/\ call.fn = "check_whisper_available" /\ call.returned /\ call.changes = 0
        /\ ~SavedPathWorks(call.arg)
        /\ InstalledBinary # NoPath /\ ProbeExitsZero(InstalledBinary))
       => call.result.available /\ call.result.path = InstalledBinary
    /\ (/\ call.fn = "find_whisper_binary" /\ call.returned /\ call.changes = 0
        /\ InstalledBinary # NoPath /\ ProbeExitsZero(InstalledBinary))
       => call.result = InstalledBinary


\* C21. Tool probing never blocks forever: every call of
\* check_whisper_available, verify_whisper_path and find_whisper_binary
\* eventually returns, even when a probed candidate never exits by itself.
C21_ProbeReturns == (call.fn # "none") ~> (call.fn # "none" /\ call.returned)


\* C22. For every entry returned by get_available_models, in every state of
\* the filesystem: installed is true iff a file with the descriptor's file name
\* exists in the installation directory at that moment, and installed_path is
\* present iff installed is true, and is then that path.
C22_InstalledIffFile ==
    \A i \in DOMAIN get_available_models :
        LET m == get_available_models[i]
            p == Join(WhisperDir, Last(m.download_url))
            there == p \in DOMAIN files \/ (p \in DOMAIN fsName /\ fsName[p] # 0)
        IN  /\ m.installed <=> there
            /\ (m.installed_path # NoPath) <=> m.installed
            /\ m.installed => m.installed_path = p

\* a download has just installed one model, while another one is not there
C22_Witness ==
    /\ \E c \in Callers : ret[c].done /\ ret[c].message = "Model downloaded successfully"
    /\ \E i, j \in DOMAIN get_available_models :
          /\ get_available_models[i].installed
          /\ get_available_models[i].installed_path # NoPath
          /\ ~get_available_models[j].installed

\* C23. Acquisition and selection share one identity for a model: for every
\* model id of the registry, once download_whisper_model(id) has succeeded
\* into an otherwise empty installation, get_model_path(id, language) succeeds
\* and returns the downloaded file, the language being "en" for a restricted
\* entry and another code for a multilingual one.
C23_DownloadedIsSelected ==
    \A c \in Callers :
        (/\ ret[c].done /\ ret[c].message = "Model downloaded successfully"
         /\ {p \in DOMAIN fsName : fsName[p] # 0} = {ret[c].model_path})
        => LET language == IF InfoOf(req[c]).is_multilingual THEN "de" ELSE "en"
               selected == get_model_path(req[c], language)
           IN  selected.ok /\ selected.path = ret[c].model_path

\* C24. Within one download_whisper_model call a "downloading" event is
\* emitted at most once per 100ms: when one is emitted, at least 100ms have
\* passed since the one before it, or since the stream started when it is the
\* first, however many chunks arrived in between.
C24_ProgressThrottled ==
    [][\A c \in Callers :
          (/\ Len(events'[c]) = Len(events[c]) + 1
           /\ Last(events'[c]).status = "downloading")
          => quiet[c] >= ProgressIntervalMs]_vars

\* the first chunk came after 100ms and was reported; the second and the third
\* came less than 100ms after it and were not; the fourth was: two chunks
\* arrived between two "downloading" events
C24_Witness ==
    \E c \in Callers :
        /\ pc[c] = "next"
        /\ downloaded[c] = 4 * ChunkMB
        /\ {events[c][i].downloaded :
               i \in {j \in DOMAIN events[c] : events[c][j].status = "downloading"}}
             = {ChunkMB, 4 * ChunkMB}

\* C25. Every engine command that find_whisper_binary returns (a path of the
\* installation directory, or one of the bare names whisper, whisper-cpp and
\* main) passes the "Verify whisper binary exists" gate of transcribe_audio:
\* a call whose engine was found by find_whisper_binary never ends with the
\* error "Whisper binary not found at path".
C25_FoundEnginePassesGate ==
    (/\ tpc = "ERROR"
     /\ call.fn = "find_whisper_binary" /\ call.returned
     /\ call.result # NoPath /\ whisper_cmd = call.result)
    => tres.message # "Whisper binary not found at path"

\* C26. verify_whisper_path and check_whisper_available agree on a path the
\* user selected: when verify_whisper_path(p) has reported available with path
\* p, check_whisper_available(Some(p)), in the same environment, reports
\* available with the same path p.
\* (Stated for calls during which no other process changed the environment.)
C26_VerifyAgreesWithCheck ==
    (/\ call.fn = "verify_whisper_path" /\ call.returned /\ call.changes = 0
     /\ call.result.available
     /\ call.result.path = call.arg)
    => check_whisper_available(call.arg) = WhisperCheckResult(TRUE, call.arg)

\* C27. transcribe_audio changes the filesystem only where the engine exited 0
\* and its trimmed stdout was empty, and there it only removes side files it
\* found (the audio file is the caller's, not a side file); on every other
\* path it deletes and writes nothing, so what the engine wrote stays.
\* (Stated for the steps of transcribe_audio itself, not for what another
\* process does to the engine files while the call waits.)
C27_OnlySideFilesRemoved ==
    [][(tpc # "INVOKE" /\ files' # files /\ call.changes' = call.changes)
       => /\ tpc = "PARSE_OUTPUT"
          /\ output.spawned /\ output.success
          /\ Trim(FromUtf8Lossy(output.stdout)) = <<>>
          /\ DOMAIN files' \subseteq DOMAIN files
          /\ \A p \in DOMAIN files' : files'[p] = files[p]
          /\ (DOMAIN files \ DOMAIN files')
                \subseteq ({FirstSidePath(treq.audio_path), SecondSidePath(treq.audio_path)}
                           \ {treq.audio_path})]_vars

\* C28. In download_whisper_model a "completed" event is emitted iff the call
\* returns success after a transfer, and when it is emitted the model file
\* already exists under its final name (the rename precedes it); a call that
\* fails after "starting" has emitted "starting" and "downloading" events only.
C28_CompletedAfterRename ==
    [][\A c \in Callers :
          LET statuses == {events[c][i].status : i \in DOMAIN events[c]}
              statuses2 == {events'[c][i].status : i \in DOMAIN events'[c]}
          IN  /\ ("completed" \in statuses2 /\ "completed" \notin statuses)
                    => /\ Exists(ModelPath(FindModel(req[c])))
                       /\ pc[c] = "completed"
              /\ pc'[c] # "idle" => "completed" \notin statuses2
              /\ (pc'[c] = "idle" /\ ret'[c].done)
                    => ("completed" \in statuses2
                          <=> ret'[c].ok /\ ret'[c].message = "Model downloaded successfully")
              /\ (pc'[c] = "idle" /\ ret'[c].done /\ ~ret'[c].ok)
                    => statuses2 \subseteq {"starting", "downloading"}]_vars

\* a call failed in mid-stream, and the call after it has transferred the
\* model and emitted "completed"
C28_Witness ==
    \E c \in Callers :
        /\ pc[c] = "idle" /\ ret[c].done /\ ret[c].ok
        /\ events[c] # <<>>
        /\ Last(events[c]).status = "completed"
        /\ Exists(ret[c].model_path)
        /\ prev[c].done /\ ~prev[c].ok /\ prev[c].nevents >= 1

====
